---- MODULE Spec2Model ----
(***************************************************************************)
(* Model of tensorflow/python/training/distribute.py: the per-thread       *)
(* stack of thread modes, the mode guards, DistributionStrategy.scope(),   *)
(* call_for_each_replica(), ReplicaContext.merge_call() and the guarded    *)
(* cross-replica operations, for three strategy objects:                   *)
(*   "default"  the _DefaultDistributionStrategy singleton,                *)
(*   "s1"       a replicating descendant that runs one thread per replica, *)
(*   "s2"       a descendant that overrides no hook of the base class.     *)
(* User code (the bodies of with-blocks, replica functions, merge          *)
(* functions and update functions) is nondeterministic: at every point it  *)
(* may call any operation, return, raise, or catch a propagating error.    *)
(***************************************************************************)
EXTENDS Integers, Sequences, FiniteSets, TLC

\* ---------------------------------------------------------------------------
\* Bounds of the model.

\* Deepest nesting of user code bodies on the thread that runs the program.
MaxDepth == 4
\* Deepest nesting of user code bodies on a thread that runs one replica.
MaxReplicaDepth == 3
\* Deepest nesting of user code bodies on the thread of the program that
\* nests call_for_each_replica and merge_call in each other.
MaxNesting == 6
\* Number of ReplicaContext objects constructed in one run (the default
\* replica context not counted).
MaxContexts == 3
\* Number of InputContext objects constructed in one run.
MaxInputContexts == 2

\* ---------------------------------------------------------------------------
\* Objects.

None == "None"

DefaultStrategy == "default"

Strategies == {"default", "s1", "s2"}

\* Replicas of "s1": replica i runs on thread i + 1, the program on the
\* thread after them.
NumReplicas == 2

ReplicaThreads == 1..NumReplicas

MainThread == NumReplicas + 1

\* The thread of a program that nests deeper than the others; it runs in
\* the specification of the nesting only.
NestingThread == NumReplicas + 2

Threads == ReplicaThreads \cup {MainThread, NestingThread}

num_replicas_in_sync(S) == IF S = DefaultStrategy THEN 1 ELSE NumReplicas

\* DistributionStrategy.__init__ sets _default_device to None; the
\* replicating descendant sets one.
default_device(S) == IF S = "s1" THEN "device:0" ELSE None

\* ReplicaContext.__init__; oid is the identity of the object.
ReplicaContext(S, id, oid) ==
  [distribution_strategy |-> S, replica_id_in_sync_group |-> id, oid |-> oid]

NoContext == ReplicaContext(None, -1, -1)

\* _ThreadMode and its three descendants.
ThreadMode(dist, cross, replica) ==
  [distribution_strategy |-> dist, cross_replica_context |-> cross,
   replica_context |-> replica]

CrossReplicaThreadMode(S) == ThreadMode(S, S, NoContext)

InReplicaThreadMode(R) == ThreadMode(R.distribution_strategy, None, R)

DefaultReplicaContext == ReplicaContext(DefaultStrategy, 0, 0)

DefaultReplicaThreadMode ==
  ThreadMode(DefaultStrategy, None, DefaultReplicaContext)

\* A value that is not wrapped, known by its name.
Tensor(name) == [kind |-> "Tensor", parts |-> <<name>>]

\* A wrapped value: the values of the replicas, replica i at index i + 1.
PerReplica(parts) == [kind |-> "PerReplica", parts |-> parts]

\* A mirrored variable: its member on each replica's device.
Mirrored(parts) == [kind |-> "Mirrored", parts |-> parts]

\* The mirrored variables created under the replicating strategy.
MirroredVariables == {Mirrored(<<"v/replica:0", "v/replica:1">>)}

\* Errors: the exception type, which message, and the strategies it names.
Error(type, msg, names) == [type |-> type, msg |-> msg, names |-> names]

NoError == Error(None, None, {})

UserError == Error("UserError", "raised by user code", {})

\* The error an operation ends with when an error of this type leaves it.
Propagating(type) == Error(type, None, {})

\* How a call passes the arguments meant for fn: trailing positional
\* arguments (pos), args=..., leftover keyword arguments (kw), kwargs=...
ArgForm(pos, args, kw, kwargs) ==
  [pos |-> pos, args |-> args, kw |-> kw, kwargs |-> kwargs]

NoForm == ArgForm(FALSE, FALSE, FALSE, FALSE)

\* The forms calls are made with: no arguments, legacy, structured, both
\* forms of positional arguments, both forms of keyword arguments.
ArgForms ==
  {NoForm, ArgForm(TRUE, FALSE, TRUE, FALSE), ArgForm(FALSE, TRUE, FALSE, TRUE),
   ArgForm(TRUE, TRUE, FALSE, FALSE), ArgForm(FALSE, FALSE, TRUE, TRUE)}

\* ---------------------------------------------------------------------------
\* State.

VARIABLES
  modeStack,     \* per thread: the stack of thread modes, top last
  frames,        \* per thread: the user code bodies being executed, top last
  status,        \* per thread: idle, starting, running, raising, blocked, done
  err,           \* per thread: the type of the error that is propagating
  varScopes,     \* per thread: the variable / creator / device scopes entered
  updateDevice,  \* per thread: _update_device.current
  contexts,      \* ReplicaContext objects constructed so far
  batch,         \* the call_for_each_replica of "s1" in progress
  inputContexts, \* InputContext objects constructed so far
  last           \* what the latest step did

vars == <<modeStack, frames, status, err, varScopes, updateDevice,
          contexts, batch, inputContexts, last>>

\* ---------------------------------------------------------------------------
\* distribution_strategy_context: the per-thread mode stack.

push_per_thread_mode(stack, context) == Append(stack, context)

pop_per_thread_mode(stack) == SubSeq(stack, 1, Len(stack) - 1)

\* A stack with no implicit base: with nothing pushed, the thread counts as
\* being in cross-replica mode of the default strategy.
get_per_thread_mode_cross_replica_base(stack) ==
  IF Len(stack) = 0 THEN CrossReplicaThreadMode(DefaultStrategy)
  ELSE stack[Len(stack)]

\* _get_per_thread_mode: the top of the thread's stack, which starts with
\* the mode of the default replica context.
get_per_thread_mode(stack) ==
  IF Len(stack) = 0 THEN DefaultReplicaThreadMode ELSE stack[Len(stack)]

get_distribution_strategy(stack) ==
  get_per_thread_mode(stack).distribution_strategy

has_distribution_strategy(stack) ==
  get_distribution_strategy(stack) # DefaultStrategy

\* ---------------------------------------------------------------------------
\* The mode guards.  Each returns NoError or the error it raises.

\* A guard that compares the current strategy, not the cross-replica context.
require_cross_replica_context_by_strategy(stack, S) ==
  LET context == get_per_thread_mode(stack) IN
  IF context.distribution_strategy = S THEN NoError
  ELSE IF ~has_distribution_strategy(stack)
    THEN Error("RuntimeError", "need to be inside scope", {S})
  ELSE Error("RuntimeError", "mixing different strategies",
             {context.distribution_strategy, S})

\* A guard that reports every strategy mismatch as mixing strategies.
require_cross_replica_context_always_mixing(stack, S) ==
  LET context == get_per_thread_mode(stack) IN
  IF context.cross_replica_context = S THEN NoError
  ELSE IF context.distribution_strategy # S
    THEN Error("RuntimeError", "mixing different strategies",
               {context.distribution_strategy, S})
  ELSE Error("RuntimeError", "requires cross-replica context, use merge_call",
             {})

\* _require_cross_replica_context
require_cross_replica_context(stack, S) ==
  LET context == get_per_thread_mode(stack) IN
  IF context.cross_replica_context = S THEN NoError
  ELSE IF context.distribution_strategy # S
    THEN IF ~has_distribution_strategy(stack)
           THEN Error("RuntimeError", "need to be inside scope", {S})
           ELSE Error("RuntimeError", "mixing different strategies",
                      {context.distribution_strategy, S})
  ELSE IF context.cross_replica_context # None
    THEN Error("AssertionError", "assert", {})
  ELSE Error("RuntimeError", "requires cross-replica context, use merge_call",
             {})

\* A guard that compares strategy and replica id, not the object.
require_replica_context_by_value(stack, replica_ctx) ==
  LET context == get_per_thread_mode(stack) IN
  IF /\ context.replica_context.distribution_strategy
          = replica_ctx.distribution_strategy
     /\ context.replica_context.replica_id_in_sync_group
          = replica_ctx.replica_id_in_sync_group
    THEN NoError
  ELSE IF context.replica_context = NoContext
    THEN Error("RuntimeError", "need to be inside call_for_each_replica", {})
  ELSE Error("RuntimeError", "mismatching strategies",
             {context.distribution_strategy,
              replica_ctx.distribution_strategy})

\* require_replica_context
require_replica_context(stack, replica_ctx) ==
  LET context == get_per_thread_mode(stack) IN
  IF context.replica_context = replica_ctx THEN NoError
  ELSE IF context.replica_context = NoContext
    THEN Error("RuntimeError", "need to be inside call_for_each_replica", {})
  ELSE IF context.distribution_strategy = replica_ctx.distribution_strategy
    THEN Error("RuntimeError", "mismatching replica context", {})
  ELSE Error("RuntimeError", "mismatching strategies",
             {context.distribution_strategy,
              replica_ctx.distribution_strategy})

\* A scope guard that never fails.
require_distribution_strategy_scope_never_fails(stack, S) == NoError

\* A scope guard that demands cross-replica mode.
require_distribution_strategy_scope_cross_only(stack, S) ==
  LET context == get_per_thread_mode(stack) IN
  IF context.cross_replica_context = S THEN NoError
  ELSE IF ~has_distribution_strategy(stack)
    THEN Error("RuntimeError", "need to be inside scope", {S})
  ELSE Error("RuntimeError", "mixing different strategies",
             {context.distribution_strategy, S})

\* _require_distribution_strategy_scope
require_distribution_strategy_scope(stack, S) ==
  LET context == get_per_thread_mode(stack) IN
  IF context.distribution_strategy = S THEN NoError
  ELSE IF ~has_distribution_strategy(stack)
    THEN Error("RuntimeError", "need to be inside scope", {S})
  ELSE Error("RuntimeError", "mixing different strategies",
             {context.distribution_strategy, S})

\* ---------------------------------------------------------------------------
\* Context managers returned by scope().

\* _CurrentDistributionContext.__init__
CurrentDistributionContext(S, var_scope, device) ==
  [cls |-> "current", strategy |-> S, var_scope |-> var_scope,
   device |-> device]

\* _SameScopeAgainContext.__init__
SameScopeAgainContext(S) ==
  [cls |-> "same", strategy |-> S, var_scope |-> FALSE, device |-> None]

NoManager ==
  [cls |-> None, strategy |-> None, var_scope |-> FALSE, device |-> None]

\* A scope entered on a thread: which kind, and for which strategy.
ScopeEntry(kind, S) == [kind |-> kind, strategy |-> S]

\* The state a context manager acts on: the mode stack, the scopes entered,
\* and the order in which __exit__ left them.
CmState(stack, scopes) == [stack |-> stack, scopes |-> scopes, log |-> <<>>]

EnterVarScope(st, cm) ==
  IF cm.var_scope
    THEN [st EXCEPT !.scopes = Append(@, ScopeEntry("var_scope", cm.strategy))]
    ELSE st

EnterVarCreatorScope(st, cm) ==
  [st EXCEPT !.scopes = Append(@, ScopeEntry("var_creator", cm.strategy))]

EnterDeviceScope(st, cm) ==
  IF cm.device # None
    THEN [st EXCEPT !.scopes = Append(@, ScopeEntry("device", cm.strategy))]
    ELSE st

PushMode(st, cm) ==
  [st EXCEPT !.stack =
     push_per_thread_mode(@, CrossReplicaThreadMode(cm.strategy))]

\* The scopes entered without the innermost one of this kind and strategy.
RECURSIVE WithoutLast(_, _)
WithoutLast(scopes, entry) ==
  IF Len(scopes) = 0 THEN scopes
  ELSE IF scopes[Len(scopes)] = entry THEN SubSeq(scopes, 1, Len(scopes) - 1)
  ELSE Append(WithoutLast(SubSeq(scopes, 1, Len(scopes) - 1), entry),
              scopes[Len(scopes)])

\* __exit__ of one scope: it is no longer entered, and the unwind records it.
LeaveScope(st, kind, S) ==
  [st EXCEPT !.scopes = WithoutLast(@, ScopeEntry(kind, S)),
             !.log = Append(@, kind)]

ExitDeviceScope(st, cm) ==
  IF cm.device # None THEN LeaveScope(st, "device", cm.strategy) ELSE st

ExitVarCreatorScope(st, cm) == LeaveScope(st, "var_creator", cm.strategy)

ExitVarScope(st, cm) ==
  IF cm.var_scope THEN LeaveScope(st, "var_scope", cm.strategy) ELSE st

PopMode(st, cm) ==
  [st EXCEPT !.stack = pop_per_thread_mode(@), !.log = Append(@, "mode")]

\* An __enter__ that installs the policy whatever the manager.
cm_enter_always_installs(st, cm) ==
  EnterDeviceScope(
    EnterVarCreatorScope(EnterVarScope(PushMode(st, cm), cm), cm), cm)

\* _CurrentDistributionContext.__enter__ / _SameScopeAgainContext.__enter__
cm_enter(st, cm) ==
  IF cm.cls = "same" THEN st
  ELSE EnterDeviceScope(
         EnterVarCreatorScope(EnterVarScope(PushMode(st, cm), cm), cm), cm)

\* The collaborators whose __enter__ is called by
\* _CurrentDistributionContext.__enter__, in the order of the calls.
Collaborators == <<"var_scope", "var_creator", "device">>

\* Manager cm calls __enter__ of this collaborator.
HasCollaborator(cm, which) ==
  /\ cm.cls = "current"
  /\ \/ which = "var_scope" /\ cm.var_scope
     \/ which = "var_creator"
     \/ which = "device" /\ cm.device # None

\* _CurrentDistributionContext.__enter__ when __enter__ of the collaborator
\* failing raises: the statements before it have run, and nothing undoes
\* them.
cm_enter_failing(st, cm, failing) ==
  IF failing = "var_scope" THEN PushMode(st, cm)
  ELSE IF failing = "var_creator" THEN EnterVarScope(PushMode(st, cm), cm)
  ELSE EnterVarCreatorScope(EnterVarScope(PushMode(st, cm), cm), cm)

\* What a collaborator's __enter__ raises.
EnterError == Error("Exception", "__enter__ of a collaborator failed", {})

\* An __exit__ that unwinds in the order of installation.
cm_exit_pops_first(st, cm) ==
  IF cm.cls = "same" THEN st
  ELSE ExitDeviceScope(
         ExitVarCreatorScope(ExitVarScope(PopMode(st, cm), cm), cm), cm)

\* _CurrentDistributionContext.__exit__ / _SameScopeAgainContext.__exit__
cm_exit(st, cm) ==
  IF cm.cls = "same" THEN st
  ELSE PopMode(
         ExitVarScope(ExitVarCreatorScope(ExitDeviceScope(st, cm), cm), cm),
         cm)

\* A scope() that does not check whose scope is active.
base_scope_unchecked(stack, S) ==
  IF has_distribution_strategy(stack)
    THEN [err |-> NoError, cm |-> SameScopeAgainContext(S)]
    ELSE [err |-> NoError,
          cm |-> CurrentDistributionContext(S, TRUE, default_device(S))]

\* DistributionStrategy.scope: the error raised, or the manager returned.
base_scope(stack, S) ==
  IF has_distribution_strategy(stack)
    THEN [err |-> require_cross_replica_context(stack, S),
          cm |-> SameScopeAgainContext(S)]
    ELSE [err |-> NoError,
          cm |-> CurrentDistributionContext(S, TRUE, default_device(S))]

\* _DefaultDistributionStrategy.scope
default_scope(stack) ==
  IF has_distribution_strategy(stack)
    THEN [err |-> Error("RuntimeError", "must not nest scopes", {}),
          cm |-> NoManager]
    ELSE [err |-> NoError,
          cm |-> CurrentDistributionContext(DefaultStrategy, FALSE, None)]

scope(stack, S) ==
  IF S = DefaultStrategy THEN default_scope(stack) ELSE base_scope(stack, S)

\* ---------------------------------------------------------------------------
\* User code bodies and the record of the latest step.

\* A body of user code being executed: the body of a with-block
\* ("scope_body"), a replica function ("replica_fn"), a merge function
\* ("merge_fn"), an update function ("update_fn") or the program ("main").
\* saved and savedScopes are the mode stack and the scopes at the call that
\* started it; old_device is UpdateContext._old_device; held are the context
\* managers that the program or thread function, the bottom body, got from
\* scope() and keeps in its variables, and objects the UpdateContext objects
\* it constructed; uc is the index of the UpdateContext object whose with-block
\* the body is.
Frame(kind, cm, ctx, saved, savedScopes, old_device) ==
  [kind |-> kind, cm |-> cm, ctx |-> ctx, saved |-> saved,
   savedScopes |-> savedScopes, old_device |-> old_device, device |-> None,
   should_group |-> TRUE, held |-> <<>>, objects |-> <<>>, uc |-> 0]

\* The body f of an update function: device is UpdateContext._device, and
\* should_group the flag _update_non_slot was called with.
UpdateFrame(f, device, should_group) ==
  [f EXCEPT !.device = device, !.should_group = should_group]

MainFrame == Frame("main", NoManager, NoContext, <<>>, <<>>, None)

TopFrame(t) == frames[t][Len(frames[t])]

PopFrame(t) == SubSeq(frames[t], 1, Len(frames[t]) - 1)

\* What a step did: op on strategy / ctx / cm, called with form; outcome is
\* "enter" (the call reached user code, which now runs), "ok" (the call
\* returned without running user code), "raise" (the call raised err without
\* running user code), "returned" (the user code it ran returned, and so
\* did the call) or "failed" (an error left the user code it ran, and the call);
\* before / after are the mode stack at the call and after the step,
\* scopesBefore / scopesAfter the scopes entered, log the order of an unwind;
\* value is the value handed to the call, or returned by the user code it
\* ran, and result the value the call returned.
Event(t, op, S, ctx, cm, form, outcome, error, before, after, sb, sa, log) ==
  [thread |-> t, op |-> op, strategy |-> S, ctx |-> ctx, cm |-> cm,
   form |-> form, outcome |-> outcome, err |-> error,
   before |-> before, after |-> after,
   scopesBefore |-> sb, scopesAfter |-> sa, log |-> log,
   value |-> None, result |-> None]

\* The event e of a call that was handed value and returned result.
WithResult(e, value, result) ==
  [e EXCEPT !.value = value, !.result = result]

NoEvent ==
  Event(-1, None, None, NoContext, NoManager, NoForm, None, NoError,
        <<>>, <<>>, <<>>, <<>>, <<>>)

\* An event of thread t that leaves the mode stack and the scopes alone.
Plain(t, op, S, ctx, cm, form, outcome, error) ==
  Event(t, op, S, ctx, cm, form, outcome, error, modeStack[t], modeStack[t],
        varScopes[t], varScopes[t], <<>>)

DepthBound(t) ==
  IF t = MainThread THEN MaxDepth
  ELSE IF t = NestingThread THEN MaxNesting
  ELSE MaxReplicaDepth

\* User code of thread t is running and may make a call.
Running(t) == status[t] = "running" /\ Len(frames[t]) > 0

\* User code of thread t may be called into one more body.
CanNest(t) == Len(frames[t]) < DepthBound(t)

\* The body on top of thread t is of this kind and is being left, by
\* returning or by an error propagating out of it.
Leaving(t, kind) ==
  /\ status[t] \in {"running", "raising"}
  /\ Len(frames[t]) > 0
  /\ TopFrame(t).kind = kind

Outcome(t) == IF status[t] = "raising" THEN "failed" ELSE "returned"

\* One stack shared by every thread.
set_shared_stack(t, stack) == [u \in Threads |-> stack]

\* The mode stacks once the stack of thread t is stack: the stack is
\* thread-local, every other thread keeps its own.
set_per_thread_stack(t, stack) == [modeStack EXCEPT ![t] = stack]

\* The status of a thread once a context manager's __exit__ has run:
\* an __exit__ that returns a true value stops the error that left the body.
after_exit(state, suppress) ==
  IF state = "raising" /\ suppress THEN "running" ELSE state

\* A ReplicaContext.__exit__ that returns True.
replica_exit_swallows == TRUE

\* What ReplicaContext.__exit__ returns, as a truth value.
replica_exit_result == FALSE

\* What _CurrentDistributionContext.__exit__ and
\* _SameScopeAgainContext.__exit__ return, as a truth value.
cm_exit_result == FALSE

\* The call op of thread t raises error: nothing else changes.
Raises(t, op, S, ctx, form, error) ==
  /\ status' = [status EXCEPT ![t] = "raising"]
  /\ err' = [err EXCEPT ![t] = error.type]
  /\ last' = Plain(t, op, S, ctx, NoManager, form, "raise", error)
  /\ UNCHANGED <<inputContexts, modeStack, frames, varScopes, updateDevice, contexts,
                 batch>>

\* The call op of thread t returns without having called user code.
Returns(t, op, S, ctx, form) ==
  /\ last' = Plain(t, op, S, ctx, NoManager, form, "ok", NoError)
  /\ UNCHANGED <<inputContexts, modeStack, frames, status, err, varScopes, updateDevice, contexts, batch>>

\* The "s1" call_for_each_replica in progress: its caller, the caller's
\* mode stack at the call, the replica contexts (replica i at index i + 1), each replica's outcome,
\* error and result, and the thread that holds the merge lock.
NoBatch ==
  [active |-> FALSE, caller |-> -1, saved |-> <<>>, ctxs |-> <<>>,
   outcome |-> [r \in ReplicaThreads |-> None],
   errs |-> [r \in ReplicaThreads |-> None],
   results |-> [r \in ReplicaThreads |-> <<>>], lock |-> -1]

Init ==
  /\ modeStack = [t \in Threads |-> <<>>]
  /\ frames = [t \in Threads |-> IF t = MainThread THEN <<MainFrame>> ELSE <<>>]
  /\ status = [t \in Threads |-> IF t = MainThread THEN "running" ELSE "idle"]
  /\ err = [t \in Threads |-> None]
  /\ varScopes = [t \in Threads |-> <<>>]
  /\ updateDevice = [t \in Threads |-> None]
  /\ contexts = {DefaultReplicaContext}
  /\ batch = NoBatch
  /\ inputContexts = {}
  /\ last = NoEvent

\* The state in which the program that nests deeper starts, on its thread.
InitNesting ==
  /\ modeStack = [t \in Threads |-> <<>>]
  /\ frames = [t \in Threads |->
                IF t = NestingThread THEN <<MainFrame>> ELSE <<>>]
  /\ status = [t \in Threads |->
                IF t = NestingThread THEN "running" ELSE "idle"]
  /\ err = [t \in Threads |-> None]
  /\ varScopes = [t \in Threads |-> <<>>]
  /\ updateDevice = [t \in Threads |-> None]
  /\ contexts = {DefaultReplicaContext}
  /\ batch = NoBatch
  /\ inputContexts = {}
  /\ last = NoEvent

\* ---------------------------------------------------------------------------
\* scope() and the with-block around it.

\* with S.scope():  (S.scope(), then __enter__ of the manager it returns,
\* then the body starts)
WithScope(t, S) ==
  /\ Running(t)
  /\ LET r == scope(modeStack[t], S) IN
     IF r.err # NoError
       THEN Raises(t, "scope", S, NoContext, NoForm, r.err)
       ELSE LET st == cm_enter(CmState(modeStack[t], varScopes[t]), r.cm) IN
            /\ CanNest(t)
            /\ modeStack' = set_per_thread_stack(t, st.stack)
            /\ varScopes' = [varScopes EXCEPT ![t] = st.scopes]
            /\ frames' = [frames EXCEPT ![t] =
                 Append(@, Frame("scope_body", r.cm, NoContext, modeStack[t],
                                 varScopes[t], None))]
            /\ last' = Event(t, "scope", S, NoContext, r.cm, NoForm, "enter",
                             NoError, modeStack[t], st.stack, varScopes[t],
                             st.scopes, <<>>)
            /\ UNCHANGED <<inputContexts, status, err, updateDevice, contexts, batch>>

\* The deepest mode stack a failing scope entry is tried on.
MaxStack == 3

\* with S.scope(): when __enter__ of a collaborator raises. The with
\* statement does not call __exit__ of a manager whose __enter__ raised, and
\* the body does not start.
WithScopeFailing(t, S, failing) ==
  /\ Running(t)
  /\ Len(modeStack[t]) < MaxStack
  /\ LET r == scope(modeStack[t], S) IN
     /\ r.err = NoError
     /\ HasCollaborator(r.cm, failing)
     /\ LET st == cm_enter_failing(CmState(modeStack[t], varScopes[t]), r.cm,
                                   failing) IN
        /\ modeStack' = set_per_thread_stack(t, st.stack)
        /\ varScopes' = [varScopes EXCEPT ![t] = st.scopes]
        /\ status' = [status EXCEPT ![t] = "raising"]
        /\ err' = [err EXCEPT ![t] = EnterError.type]
        /\ last' = WithResult(
                     Event(t, "scope", S, NoContext, r.cm, NoForm, "raise",
                           EnterError, modeStack[t], st.stack, varScopes[t],
                           st.scopes, <<>>),
                     failing, None)
        /\ UNCHANGED <<inputContexts, frames, updateDevice, contexts, batch>>

\* The most context managers a program keeps in its variables.
MaxHeld == 2

\* The context managers the code of thread t keeps in its variables.
Held(t) == frames[t][1].held

\* cm = S.scope(), without entering cm yet: a statement of the program
\* outside every with-block and function.
ObtainScope(t, S) ==
  /\ Running(t)
  /\ Len(frames[t]) = 1
  /\ LET r == scope(modeStack[t], S) IN
     IF r.err # NoError
       THEN Raises(t, "scope", S, NoContext, NoForm, r.err)
       ELSE /\ Len(Held(t)) < MaxHeld
            /\ frames' = [frames EXCEPT ![t][1].held = Append(@, r.cm)]
            /\ last' = Plain(t, "scope", S, NoContext, r.cm, NoForm, "ok",
                             NoError)
            /\ UNCHANGED <<inputContexts, modeStack, status, err, varScopes,
                           updateDevice, contexts, batch>>

\* with cm:  for the i-th manager the code holds: cm.__enter__, then the
\* body of the with-block starts.
EnterObtained(t, i) ==
  /\ Running(t)
  /\ CanNest(t)
  /\ i \in 1..Len(Held(t))
  /\ LET cm == Held(t)[i]
         st == cm_enter(CmState(modeStack[t], varScopes[t]), cm) IN
     /\ modeStack' = set_per_thread_stack(t, st.stack)
     /\ varScopes' = [varScopes EXCEPT ![t] = st.scopes]
     /\ frames' = [frames EXCEPT ![t] =
          Append(@, Frame("scope_body", cm, NoContext, modeStack[t],
                          varScopes[t], None))]
     /\ last' = Event(t, "enter", cm.strategy, NoContext, cm, NoForm, "enter",
                      NoError, modeStack[t], st.stack, varScopes[t],
                      st.scopes, <<>>)
     /\ UNCHANGED <<inputContexts, status, err, updateDevice, contexts, batch>>

\* The body of a with-block ends, or an error leaves it: cm.__exit__.
ExitScope(t) ==
  /\ Leaving(t, "scope_body")
  /\ LET f == TopFrame(t)
         st == cm_exit(CmState(modeStack[t], varScopes[t]), f.cm) IN
     /\ modeStack' = set_per_thread_stack(t, st.stack)
     /\ varScopes' = [varScopes EXCEPT ![t] = st.scopes]
     /\ frames' = [frames EXCEPT ![t] = PopFrame(t)]
     /\ last' = Event(t, "scope_exit", f.cm.strategy, NoContext, f.cm, NoForm,
                      Outcome(t), Propagating(err[t]), f.saved, st.stack, f.savedScopes,
                      st.scopes, st.log)
  /\ status' = [status EXCEPT ![t] = after_exit(@, cm_exit_result)]
  /\ err' = [err EXCEPT ![t] =
       IF after_exit(status[t], cm_exit_result) = "raising" THEN @ ELSE None]
  /\ UNCHANGED <<inputContexts, updateDevice, contexts, batch>>

\* ---------------------------------------------------------------------------
\* colocate_vars_with and the creation of variables.

\* The manager S.colocate_vars_with returns: a variable creator scope around
\* create_colocated_variable, or, for the default strategy, ops.colocate_with.
ColocateContext(S) ==
  [cls |-> IF S = DefaultStrategy THEN "ops_colocate" ELSE "colocate",
   strategy |-> S, var_scope |-> FALSE, device |-> None]

\* __enter__ of that manager: the scopes entered afterwards.
colocate_enter(scopes, cm) ==
  IF cm.cls = "colocate"
    THEN Append(scopes, ScopeEntry("colocate_creator", cm.strategy))
    ELSE scopes

\* __exit__ of that manager.
colocate_exit(scopes, cm) ==
  IF cm.cls = "colocate"
    THEN WithoutLast(scopes, ScopeEntry("colocate_creator", cm.strategy))
    ELSE scopes

\* with S.colocate_vars_with(v):  (the guard, then the body starts)
WithColocateVarsWith(t, S) ==
  /\ Running(t)
  /\ LET e == require_distribution_strategy_scope(modeStack[t], S)
         cm == ColocateContext(S)
         scopes == colocate_enter(varScopes[t], cm) IN
     IF e # NoError
       THEN Raises(t, "colocate_vars_with", S, NoContext, NoForm, e)
       ELSE /\ CanNest(t)
            /\ varScopes' = [varScopes EXCEPT ![t] = scopes]
            /\ frames' = [frames EXCEPT ![t] =
                 Append(@, Frame("colocate_body", cm, NoContext, modeStack[t],
                                 varScopes[t], None))]
            /\ last' = Event(t, "colocate_vars_with", S, NoContext, cm, NoForm,
                             "enter", NoError, modeStack[t], modeStack[t],
                             varScopes[t], scopes, <<>>)
            /\ UNCHANGED <<inputContexts, modeStack, status, err, updateDevice, contexts,
                           batch>>

\* The body of with S.colocate_vars_with(v) ends, or an error leaves it.
ExitColocateVarsWith(t) ==
  /\ Leaving(t, "colocate_body")
  /\ LET f == TopFrame(t)
         scopes == colocate_exit(varScopes[t], f.cm) IN
     /\ varScopes' = [varScopes EXCEPT ![t] = scopes]
     /\ frames' = [frames EXCEPT ![t] = PopFrame(t)]
     /\ last' = Event(t, "colocate_exit", f.cm.strategy, NoContext, f.cm,
                      NoForm, Outcome(t), Propagating(err[t]), f.saved,
                      modeStack[t], f.savedScopes, scopes, <<>>)
  /\ UNCHANGED <<inputContexts, modeStack, status, err, updateDevice, contexts, batch>>

\* The error of creating a variable with these creator scopes entered, if
\* any.  The creators run innermost first: create_colocated_variable and the
\* default strategy's creator check the scope and call the next creator;
\* creator_with_resource_vars checks the scope and calls _create_variable,
\* which the base class leaves unimplemented and the replicating strategy
\* implements, going on to the next creator or not (delegates).
RECURSIVE create_variable(_, _, _)
create_variable(scopes, stack, delegates) ==
  IF Len(scopes) = 0 THEN NoError
  ELSE
    LET h == scopes[Len(scopes)]
        rest == SubSeq(scopes, 1, Len(scopes) - 1)
        e == require_distribution_strategy_scope(stack, h.strategy) IN
    IF h.kind \notin {"var_creator", "colocate_creator"}
      THEN create_variable(rest, stack, delegates)
    ELSE IF e # NoError THEN e
    ELSE IF h.kind = "colocate_creator" \/ h.strategy = DefaultStrategy
      THEN create_variable(rest, stack, delegates)
    ELSE IF h.strategy = "s1"
      THEN IF delegates THEN create_variable(rest, stack, delegates)
           ELSE NoError
    ELSE Error("NotImplementedError", "must be implemented in descendants", {})

\* User code creates a variable.
CreateVariable(t, delegates) ==
  /\ Running(t)
  /\ LET e == create_variable(varScopes[t], modeStack[t], delegates)
         S == get_distribution_strategy(modeStack[t]) IN
     IF e # NoError
       THEN Raises(t, "create_variable", S, NoContext, NoForm, e)
       ELSE Returns(t, "create_variable", S, NoContext, NoForm)

\* ---------------------------------------------------------------------------
\* User code raising and catching.

\* User code raises an error of its own.
Raise(t) ==
  /\ Running(t)
  /\ status' = [status EXCEPT ![t] = "raising"]
  /\ err' = [err EXCEPT ![t] = UserError.type]
  /\ last' = Plain(t, "raise", None, NoContext, NoManager, NoForm, "raise",
                   UserError)
  /\ UNCHANGED <<inputContexts, modeStack, frames, varScopes, updateDevice, contexts,
                 batch>>

\* User code catches the error that reached it (try / except).
Catch(t) ==
  /\ status[t] = "raising"
  /\ Len(frames[t]) > 0
  /\ status' = [status EXCEPT ![t] = "running"]
  /\ err' = [err EXCEPT ![t] = None]
  /\ last' = Plain(t, "catch", None, NoContext, NoManager, NoForm, "ok",
                   NoError)
  /\ UNCHANGED <<inputContexts, modeStack, frames, varScopes, updateDevice, contexts,
                 batch>>

\* ---------------------------------------------------------------------------
\* call_for_each_replica.

\* A check that looks at the positional arguments only.
check_args_positional_only(form) ==
  IF form.args /\ form.pos
    THEN Error("ValueError", "can't pass *args and args=", {})
  ELSE NoError

\* The check of the legacy / structured argument forms shared by
\* call_for_each_replica, update, update_non_slot and merge_call.
check_args(form) ==
  IF form.args /\ form.pos
    THEN Error("ValueError", "can't pass *args and args=", {})
  ELSE IF form.kwargs /\ form.kw
    THEN Error("ValueError", "can't pass **kwargs and kwargs=", {})
  ELSE NoError

NotImplementedError ==
  Error("NotImplementedError", "must be implemented in descendants", {})

\* A guarded operation that validates the form of its arguments before it
\* checks the mode.
guarded_args_first(stack, S, form) ==
  LET e == check_args(form) IN
  IF e # NoError THEN e ELSE require_cross_replica_context(stack, S)

\* The first error of a guarded operation of the base class, if any: the
\* guard's, then the one check_args finds.
guarded(stack, S, form) ==
  LET e == require_cross_replica_context(stack, S) IN
  IF e # NoError THEN e ELSE check_args(form)

\* A default strategy that numbers its replica from one.
default_replica_id_from_one == 0 + 1

\* replica_id_in_sync_group of the context _call_for_each_replica of the
\* default strategy constructs.
default_replica_id == 0

\* The replica ids a call_for_each_replica of S hands out, in order.
replica_ids(S) ==
  IF S = DefaultStrategy THEN <<default_replica_id>>
  ELSE [i \in 1..num_replicas_in_sync(S) |-> i - 1]

\* Identity of the next ReplicaContext object constructed.
NextOid == Cardinality(contexts)

\* A ReplicaContext.__enter__ that pushes the cross-replica mode.
replica_enter_pushes_cross(stack, R) ==
  push_per_thread_mode(stack, CrossReplicaThreadMode(R.distribution_strategy))

\* ReplicaContext.__enter__
replica_enter(stack, R) == push_per_thread_mode(stack, InReplicaThreadMode(R))

\* A ReplicaContext.__exit__ that leaves the mode on the stack.
replica_exit_no_pop(stack) == stack

\* ReplicaContext.__exit__
replica_exit(stack) == pop_per_thread_mode(stack)

\* _DefaultDistributionStrategy._call_for_each_replica, up to the call of fn.
DefaultCallForEachReplica(t, form) ==
  LET R == ReplicaContext(DefaultStrategy, replica_ids(DefaultStrategy)[1],
                          NextOid)
      stack == replica_enter(modeStack[t], R) IN
  /\ CanNest(t)
  /\ Cardinality(contexts) <= MaxContexts
  /\ contexts' = contexts \cup {R}
  /\ modeStack' = set_per_thread_stack(t, stack)
  /\ frames' = [frames EXCEPT ![t] =
       Append(@, Frame("replica_fn", NoManager, R, modeStack[t], varScopes[t],
                       None))]
  /\ last' = Event(t, "call_for_each_replica", DefaultStrategy, R, NoManager,
                   form, "enter", NoError, modeStack[t], stack, varScopes[t],
                   varScopes[t], <<>>)
  /\ UNCHANGED <<inputContexts, status, err, varScopes, updateDevice, batch>>

\* _call_for_each_replica of the replicating strategy: one fresh context
\* and one thread per replica; the caller waits for all of them.
ReplicatedCallForEachReplica(t, S, form) ==
  LET ids == replica_ids(S)
      ctxs == [i \in 1..Len(ids) |-> ReplicaContext(S, ids[i], NextOid + i - 1)]
  IN
  /\ ~batch.active
  /\ Cardinality(contexts) + Len(ids) <= MaxContexts + 1
  /\ \A r \in ReplicaThreads : status[r] = "idle"
  /\ contexts' = contexts \cup {ctxs[i] : i \in 1..Len(ids)}
  /\ batch' = [active |-> TRUE, caller |-> t, saved |-> modeStack[t],
               ctxs |-> ctxs,
               outcome |-> [r \in ReplicaThreads |-> "running"],
               errs |-> [r \in ReplicaThreads |-> None],
               results |-> [r \in ReplicaThreads |-> <<>>], lock |-> -1]
  /\ status' = [r \in Threads |->
       IF r \in ReplicaThreads THEN "starting"
       ELSE IF r = t THEN "blocked" ELSE status[r]]
  /\ last' = Event(t, "call_for_each_replica", S, NoContext, NoManager, form,
                   "enter", NoError, modeStack[t], modeStack[t], varScopes[t],
                   varScopes[t], <<>>)
  /\ UNCHANGED <<inputContexts, modeStack, frames, err, varScopes, updateDevice>>

\* The thread of one replica of "s1" starts: ReplicaContext.__enter__, then
\* fn is called.
StartReplicaThread(t) ==
  /\ t \in ReplicaThreads
  /\ status[t] = "starting"
  /\ LET R == batch.ctxs[t]
         stack == replica_enter(modeStack[t], R) IN
     /\ modeStack' = set_per_thread_stack(t, stack)
     /\ frames' = [frames EXCEPT ![t] =
          <<Frame("replica_fn", NoManager, R, modeStack[t], varScopes[t],
                  None)>>]
     /\ status' = [status EXCEPT ![t] = "running"]
     /\ last' = Event(t, "replica_fn", R.distribution_strategy, R, NoManager,
                      NoForm, "enter", NoError, modeStack[t], stack,
                      varScopes[t], varScopes[t], <<>>)
  /\ UNCHANGED <<inputContexts, err, varScopes, updateDevice, contexts, batch>>

\* S.call_for_each_replica(fn, ...), up to the first call of fn.
CallForEachReplica(t, S, form) ==
  /\ Running(t)
  /\ LET e == guarded(modeStack[t], S, form) IN
     IF e # NoError
       THEN Raises(t, "call_for_each_replica", S, NoContext, form, e)
     ELSE IF S = DefaultStrategy THEN DefaultCallForEachReplica(t, form)
     ELSE IF S = "s1" THEN ReplicatedCallForEachReplica(t, S, form)
     ELSE Raises(t, "call_for_each_replica", S, NoContext, form,
                 NotImplementedError)

\* The values user code computes with.
Values == {"value:a", "value:b"}

\* A _call_for_each_replica that calls fn without returning what it returns.
default_call_for_each_replica_no_return(v) == None

\* What _call_for_each_replica of the default strategy returns when fn
\* returns v.
default_call_for_each_replica_result(v) == v

\* fn returns v, or raises, inside _call_for_each_replica of the default
\* strategy: ReplicaContext.__exit__, and the call is over.
FinishReplicaFn(t, v) ==
  /\ Leaving(t, "replica_fn")
  /\ TopFrame(t).ctx.distribution_strategy = DefaultStrategy
  /\ LET f == TopFrame(t)
         stack == replica_exit(modeStack[t]) IN
     /\ modeStack' = set_per_thread_stack(t, stack)
     /\ frames' = [frames EXCEPT ![t] = PopFrame(t)]
     /\ last' = WithResult(
                  Event(t, "call_for_each_replica", DefaultStrategy, f.ctx,
                        NoManager, NoForm, Outcome(t), Propagating(err[t]),
                        f.saved, stack, f.savedScopes, varScopes[t], <<>>),
                  IF status[t] = "raising" THEN None ELSE v,
                  IF status[t] = "raising" THEN None
                  ELSE default_call_for_each_replica_result(v))
  /\ status' = [status EXCEPT ![t] = after_exit(@, replica_exit_result)]
  /\ err' = [err EXCEPT ![t] =
       IF after_exit(status[t], replica_exit_result) = "raising"
         THEN @ ELSE None]
  /\ UNCHANGED <<inputContexts, varScopes, updateDevice, contexts, batch>>

\* What a replica function returns when no use is made of it.
NoResult == <<>>

\* fn returns v, or raises, on the thread of one replica of "s1":
\* ReplicaContext.__exit__, and the thread reports its outcome.
FinishReplicaThread(t, v) ==
  /\ Leaving(t, "replica_fn")
  /\ t \in ReplicaThreads
  /\ Len(frames[t]) = 1
  /\ LET f == TopFrame(t)
         stack == replica_exit(modeStack[t]) IN
     /\ modeStack' = set_per_thread_stack(t, stack)
     /\ frames' = [frames EXCEPT ![t] = <<>>]
     /\ status' = [status EXCEPT ![t] = "done"]
     /\ err' = [err EXCEPT ![t] = None]
     /\ batch' = [batch EXCEPT
          !.outcome[t] = IF after_exit(status[t], replica_exit_result)
                              = "raising" THEN "failed" ELSE "returned",
          !.errs[t] = IF after_exit(status[t], replica_exit_result)
                           = "raising" THEN err[t] ELSE None,
          !.results[t] = IF status[t] = "raising" THEN NoResult ELSE v]
     /\ last' = Event(t, "replica_fn", f.ctx.distribution_strategy, f.ctx,
                      NoManager, NoForm, Outcome(t), Propagating(err[t]), f.saved, stack,
                      f.savedScopes, varScopes[t], <<>>)
  /\ UNCHANGED <<inputContexts, varScopes, updateDevice, contexts>>

\* The components cs, one of each replica in the order of the replicas, are
\* the members of mirrored variable m.
MembersOf(m, cs) ==
  /\ Len(cs) = Len(m.parts)
  /\ \A i \in 1..Len(cs) : cs[i] = Tensor(m.parts[i])

\* A merge that wraps every component.
merged_component_always_wraps(cs) ==
  PerReplica([i \in 1..Len(cs) |-> cs[i].parts[1]])

\* One component of the merged result: the object itself when every replica
\* returned the same object, the mirrored variable when each returned its
\* member of it, else the values wrapped by replica.
merged_component(cs) ==
  IF \A i \in 1..Len(cs) : cs[i] = cs[1] THEN cs[1]
  ELSE IF \E m \in MirroredVariables : MembersOf(m, cs)
    THEN CHOOSE m \in MirroredVariables : MembersOf(m, cs)
  ELSE PerReplica([i \in 1..Len(cs) |-> cs[i].parts[1]])

\* The merged result of the replicas' results, replica i at index i + 1.
merged(results) ==
  [k \in 1..Len(results[1]) |->
     merged_component([i \in 1..Len(results) |-> results[i][k]])]

\* The replica threads that failed.
Failed == {r \in ReplicaThreads : batch.outcome[r] = "failed"}

FirstFailed == CHOOSE r \in Failed : \A q \in Failed : r <= q

\* Every replica thread of the "s1" call is over: the caller resumes with the
\* merged result, or with the error of the first replica that failed.
JoinReplicas(t) ==
  /\ batch.active
  /\ batch.caller = t
  /\ \A r \in ReplicaThreads : status[r] = "done"
  /\ LET error == IF Failed = {} THEN None ELSE batch.errs[FirstFailed] IN
     /\ status' = [r \in Threads |->
          IF r \in ReplicaThreads THEN "idle"
          ELSE IF r = t THEN (IF Failed = {} THEN "running" ELSE "raising")
          ELSE status[r]]
     /\ err' = [err EXCEPT ![t] = error]
     /\ last' = WithResult(
                  Event(t, "call_for_each_replica", "s1", NoContext, NoManager,
                        NoForm, IF Failed = {} THEN "returned" ELSE "failed",
                        Propagating(error),
                        batch.saved, modeStack[t], varScopes[t], varScopes[t],
                        [r \in ReplicaThreads |-> batch.outcome[r]]),
                  IF Failed = {} THEN batch.results ELSE None,
                  IF Failed = {} THEN merged(batch.results) ELSE None)
  /\ batch' = NoBatch
  /\ UNCHANGED <<inputContexts, modeStack, frames, varScopes, updateDevice, contexts>>

\* ---------------------------------------------------------------------------
\* merge_call.

\* A merge_call that validates its arguments without checking the mode.
merge_call_check_unguarded(stack, R, form) == check_args(form)

\* The first error of R.merge_call, if any: the guard's, then check_args'.
merge_call_check(stack, R, form) ==
  LET e == require_replica_context(stack, R) IN
  IF e # NoError THEN e ELSE check_args(form)

\* A _merge_call that pushes the replica mode of the caller once more.
merge_call_enter_stays_in_replica(stack, R) ==
  push_per_thread_mode(stack, InReplicaThreadMode(R))

\* A _merge_call that replaces the replica mode by the cross-replica mode:
\* it pops before it pushes.
merge_call_enter_pop_then_push(stack, R) ==
  push_per_thread_mode(pop_per_thread_mode(stack),
                       CrossReplicaThreadMode(R.distribution_strategy))

\* ReplicaContext._merge_call up to the call of merge_fn: the mode pushed.
merge_call_enter(stack, R) ==
  push_per_thread_mode(stack, CrossReplicaThreadMode(R.distribution_strategy))

\* A _merge_call that pops the mode only when merge_fn returns.
merge_call_exit_no_finally(stack, failed) ==
  IF failed THEN stack ELSE pop_per_thread_mode(stack)

\* ReplicaContext._merge_call after merge_fn: the pop is in a finally clause.
merge_call_exit(stack, failed) == pop_per_thread_mode(stack)

\* A replicating strategy that lets every replica thread into merge_fn.
MayEnterMergeFn_unlocked(t, R) == TRUE

\* The replicating strategy runs the merge functions of one
\* call_for_each_replica one at a time: a replica thread waits until no
\* other replica thread of the call is inside merge_fn.
MayEnterMergeFn(t, R) ==
  R.distribution_strategy = DefaultStrategy \/ batch.lock = -1

\* R.merge_call(merge_fn, ...), up to the call of merge_fn.
MergeCall(t, R, form) ==
  /\ Running(t)
  /\ R \in contexts
  /\ LET e == merge_call_check(modeStack[t], R, form) IN
     IF e # NoError
       THEN Raises(t, "merge_call", R.distribution_strategy, R, form, e)
       ELSE LET stack == merge_call_enter(modeStack[t], R) IN
            /\ CanNest(t)
            /\ MayEnterMergeFn(t, R)
            /\ modeStack' = set_per_thread_stack(t, stack)
            /\ frames' = [frames EXCEPT ![t] =
                 Append(@, Frame("merge_fn", NoManager, R, modeStack[t],
                                 varScopes[t], None))]
            /\ batch' = IF R.distribution_strategy = DefaultStrategy
                          THEN batch ELSE [batch EXCEPT !.lock = t]
            /\ last' = Event(t, "merge_call", R.distribution_strategy, R,
                             NoManager, form, "enter", NoError, modeStack[t],
                             stack, varScopes[t], varScopes[t], <<>>)
            /\ UNCHANGED <<inputContexts, status, err, varScopes, updateDevice,
                           contexts>>

\* merge_fn returns or raises: the finally clause of _merge_call.
FinishMergeFn(t) ==
  /\ Leaving(t, "merge_fn")
  /\ LET f == TopFrame(t)
         stack == merge_call_exit(modeStack[t], status[t] = "raising") IN
     /\ modeStack' = set_per_thread_stack(t, stack)
     /\ frames' = [frames EXCEPT ![t] = PopFrame(t)]
     /\ batch' = IF f.ctx.distribution_strategy = DefaultStrategy
                   THEN batch ELSE [batch EXCEPT !.lock = -1]
     /\ last' = Event(t, "merge_call", f.ctx.distribution_strategy, f.ctx,
                      NoManager, NoForm, Outcome(t), Propagating(err[t]), f.saved, stack,
                      f.savedScopes, varScopes[t], <<>>)
  /\ UNCHANGED <<inputContexts, status, err, varScopes, updateDevice, contexts>>

\* ---------------------------------------------------------------------------
\* The properties of a ReplicaContext.

\* What reading a property gives: the error raised, or the value.
Read(error, value) ==
  [err |-> error, result |-> IF error = NoError THEN value ELSE None]

\* A replica_id_in_sync_group that does not check the mode.
replica_id_in_sync_group_unchecked(stack, R) ==
  Read(NoError, R.replica_id_in_sync_group)

\* ReplicaContext.replica_id_in_sync_group
replica_id_in_sync_group(stack, R) ==
  Read(require_replica_context(stack, R), R.replica_id_in_sync_group)

\* ReplicaContext.devices: a list holding the current device.
devices(stack, R) ==
  Read(require_replica_context(stack, R), <<"device_util.current()">>)

\* ReplicaContext.distribution_strategy
distribution_strategy(stack, R) == Read(NoError, R.distribution_strategy)

\* User code of thread t reads property prop of R, which gives r.
ReadProperty(t, R, prop, r) ==
  /\ Running(t)
  /\ R \in contexts
  /\ IF r.err # NoError
       THEN Raises(t, prop, R.distribution_strategy, R, NoForm, r.err)
       ELSE /\ last' = WithResult(
                         Plain(t, prop, R.distribution_strategy, R, NoManager,
                               NoForm, "ok", NoError), None, r.result)
            /\ UNCHANGED <<inputContexts, modeStack, frames, status, err, varScopes,
                           updateDevice, contexts, batch>>

ReadReplicaIdInSyncGroup(t, R) ==
  ReadProperty(t, R, "replica_id_in_sync_group",
               replica_id_in_sync_group(modeStack[t], R))

ReadDevices(t, R) == ReadProperty(t, R, "devices", devices(modeStack[t], R))

ReadDistributionStrategy(t, R) ==
  ReadProperty(t, R, "distribution_strategy",
               distribution_strategy(modeStack[t], R))

\* ---------------------------------------------------------------------------
\* The guarded operations.

Variables == {"var:a"}

\* The call op of thread t, handed value, returns result without having
\* called user code.
ReturnsResult(t, op, S, value, result) ==
  /\ last' = WithResult(Plain(t, op, S, NoContext, NoManager, NoForm, "ok",
                              NoError), value, result)
  /\ UNCHANGED <<inputContexts, modeStack, frames, status, err, varScopes,
                 updateDevice, contexts, batch>>

\* The aggregation arguments reduce is called with: a ReduceOp, or one of the
\* deprecated VariableAggregation values it still accepts.
Aggregations == {"ReduceOp.SUM", "VariableAggregation.MEAN"}

\* reduce_util.ReduceOp.from_variable_aggregation, applied by reduce to a
\* VariableAggregation.
reduce_op(aggregation) ==
  IF aggregation = "VariableAggregation.MEAN" THEN "ReduceOp.MEAN"
  ELSE aggregation

Destinations == {None, "device:0"}

\* _DefaultDistributionStrategy._reduce
default_reduce(op, value, destinations) == Read(NoError, value)

\* _DefaultDistributionStrategy._broadcast
default_broadcast(tensor, destinations) ==
  IF destinations = None THEN Read(NoError, tensor)
  ELSE Read(Error("NotImplementedError", "TODO", {}), None)

\* A _reduce that the base class implements as the identity.
base_reduce_identity(op, value, destinations) == Read(NoError, value)

\* DistributionStrategy._reduce
base_reduce(op, value, destinations) == Read(NotImplementedError, None)

\* S.reduce(aggregation, value, destinations): the error raised, or the
\* value returned.
reduce(stack, S, aggregation, value, destinations) ==
  LET e == require_cross_replica_context(stack, S) IN
  IF e # NoError THEN Read(e, None)
  ELSE IF S = DefaultStrategy
    THEN default_reduce(reduce_op(aggregation), value, destinations)
  ELSE base_reduce(reduce_op(aggregation), value, destinations)

\* S.reduce(aggregation, value, destinations)
Reduce(t, S, aggregation, value, destinations) ==
  /\ Running(t)
  /\ LET r == reduce(modeStack[t], S, aggregation, value, destinations) IN
     IF r.err # NoError THEN Raises(t, "reduce", S, NoContext, NoForm, r.err)
     ELSE ReturnsResult(t, "reduce", S, value, r.result)

\* The results of the reduce calls rs that succeeded, or the error of the
\* first that did not.
Collect(rs) ==
  LET failed == {i \in 1..Len(rs) : rs[i].err # NoError} IN
  IF failed = {} THEN Read(NoError, [i \in 1..Len(rs) |-> rs[i].result])
  ELSE Read(rs[CHOOSE i \in failed : \A j \in failed : i <= j].err, None)

\* A _batch_reduce that reduces the pairs last to first.
base_batch_reduce_reversed(stack, S, op, pairs) ==
  Collect([i \in 1..Len(pairs) |->
             reduce(stack, S, op, pairs[Len(pairs) + 1 - i][1],
                    pairs[Len(pairs) + 1 - i][2])])

\* DistributionStrategy._batch_reduce: self.reduce for each pair, in order.
base_batch_reduce(stack, S, op, pairs) ==
  Collect([i \in 1..Len(pairs) |->
             reduce(stack, S, op, pairs[i][1], pairs[i][2])])

\* S.batch_reduce(aggregation, pairs): the error raised, or the list
\* returned.
batch_reduce(stack, S, aggregation, pairs) ==
  LET e == require_cross_replica_context(stack, S) IN
  IF e # NoError THEN Read(e, None)
  ELSE base_batch_reduce(stack, S, reduce_op(aggregation), pairs)

\* S.batch_reduce(aggregation, pairs)
BatchReduce(t, S, aggregation, pairs) ==
  /\ Running(t)
  /\ LET r == batch_reduce(modeStack[t], S, aggregation, pairs) IN
     IF r.err # NoError
       THEN Raises(t, "batch_reduce", S, NoContext, NoForm, r.err)
     ELSE ReturnsResult(t, "batch_reduce", S,
                        [aggregation |-> aggregation, pairs |-> pairs],
                        r.result)

\* S.broadcast(tensor, destinations)
Broadcast(t, S, tensor, destinations) ==
  /\ Running(t)
  /\ LET e == require_cross_replica_context(modeStack[t], S)
         r == default_broadcast(tensor, destinations) IN
     IF e # NoError THEN Raises(t, "broadcast", S, NoContext, NoForm, e)
     ELSE IF S # DefaultStrategy
       THEN Raises(t, "broadcast", S, NoContext, NoForm, NotImplementedError)
     ELSE IF r.err # NoError
       THEN /\ status' = [status EXCEPT ![t] = "raising"]
            /\ err' = [err EXCEPT ![t] = r.err.type]
            /\ last' = WithResult(Plain(t, "broadcast", S, NoContext,
                                        NoManager, NoForm, "raise", r.err),
                                  tensor, None)
            /\ UNCHANGED <<inputContexts, modeStack, frames, varScopes,
                           updateDevice, contexts, batch>>
     ELSE ReturnsResult(t, "broadcast", S, tensor, r.result)

\* S.run_steps_on_dataset(fn, iterator, ...)
RunStepsOnDataset(t, S) ==
  /\ Running(t)
  /\ LET e == require_cross_replica_context(modeStack[t], S) IN
     IF e # NoError
       THEN Raises(t, "run_steps_on_dataset", S, NoContext, NoForm, e)
       ELSE Raises(t, "run_steps_on_dataset", S, NoContext, NoForm,
                   NotImplementedError)

\* UpdateContext.__enter__: the device that becomes current.
update_enter(device) == device

\* The positional arguments a call in this form passes on for fn.
positional(form) == IF form.pos \/ form.args THEN <<"arg">> ELSE <<>>

\* _DefaultDistributionStrategy._update: the arguments handed on to
\* _update_non_slot, the variable first.
default_update_args(var, args) == <<var>> \o args

\* The positional arguments fn is called with.
fn_args(op, device, form) ==
  IF op = "update" THEN default_update_args(device, positional(form))
  ELSE positional(form)

\* The values of a grouping flag in a call: not passed, True or False.
Flags == {None, "True", "False"}

\* kwargs.pop(name, True) for a grouping flag.
pop_flag(flag) == IF flag = None THEN TRUE ELSE flag = "True"

\* A grouping that either flag may turn on.
should_group_either(group, grouped) == pop_flag(grouped) \/ pop_flag(group)

\* group = kwargs.pop("group", True);
\* group = kwargs.pop("grouped", True) and group
should_group(group, grouped) == pop_flag(grouped) /\ pop_flag(group)

\* The names in **kwargs of a call of update / update_non_slot.
keyword_names(form, group, grouped) ==
  (IF group = None THEN {} ELSE {"group"})
    \cup (IF grouped = None THEN {} ELSE {"grouped"})
    \cup (IF form.args THEN {"args"} ELSE {})
    \cup (IF form.kwargs THEN {"kwargs"} ELSE {})
    \cup (IF form.kw THEN {"kwarg"} ELSE {})

\* The names of the keyword arguments fn is called with: what is left of
\* **kwargs after the pops, or the names in kwargs= when it is given.
fn_kwargs(form, group, grouped) ==
  IF form.kwargs THEN {"kwarg"}
  ELSE keyword_names(form, group, grouped)
         \ {"group", "grouped", "args", "kwargs"}

\* What a user function returns: a leaf, or a tuple or list of such.
Leaf(name) == [nest |-> "leaf", name |-> name, items |-> <<>>]

Nest(kind, items) == [nest |-> kind, name |-> None, items |-> items]

NoLeaves == Nest("tuple", <<>>)

\* nest.map_structure(self._unwrap, result) of the default strategy.
RECURSIVE map_structure_unwrap(_)
map_structure_unwrap(result) ==
  IF result.nest = "leaf" THEN Nest("list", <<result>>)
  ELSE Nest(result.nest,
            [i \in 1..Len(result.items) |->
               map_structure_unwrap(result.items[i])])

\* _DefaultDistributionStrategy._update_non_slot: what it returns.
default_update_result(grouping, result) ==
  IF grouping THEN result ELSE map_structure_unwrap(result)

\* S.update(var, fn, ...) and S.update_non_slot(colocate_with, fn, ...), up to
\* the call of fn; _update of the default strategy is its _update_non_slot.
UpdateOpFlags(t, S, op, device, form, group, grouped) ==
  /\ Running(t)
  /\ LET e == guarded(modeStack[t], S, form) IN
     IF e # NoError THEN Raises(t, op, S, NoContext, form, e)
     ELSE IF S # DefaultStrategy
       THEN Raises(t, op, S, NoContext, form, NotImplementedError)
     ELSE /\ CanNest(t)
          /\ updateDevice' = [updateDevice EXCEPT ![t] = update_enter(device)]
          /\ frames' = [frames EXCEPT ![t] =
               Append(@, UpdateFrame(
                           Frame(op, NoManager, NoContext, modeStack[t],
                                 varScopes[t], updateDevice[t]),
                           device, should_group(group, grouped)))]
          /\ last' = WithResult(Plain(t, op, S, NoContext, NoManager, form,
                                      "enter", NoError),
                                [device |-> device,
                                 fn_args |-> fn_args(op, device, form),
                                 fn_kwargs |-> fn_kwargs(form, group, grouped),
                                 group |-> group, grouped |-> grouped], None)
          /\ UNCHANGED <<inputContexts, modeStack, status, err, varScopes, contexts,
                         batch>>

\* The calls that pass no grouping flag.
UpdateOp(t, S, op, device, form) ==
  UpdateOpFlags(t, S, op, device, form, None, None)

Update(t, S, var, form) == UpdateOp(t, S, "update", var, form)

UpdateNonSlot(t, S, colocate_with, form) ==
  UpdateOp(t, S, "update_non_slot", colocate_with, form)

\* An UpdateContext.__exit__ that clears the current device.
update_exit_clears(old_device) == None

\* UpdateContext.__exit__: the device that becomes current again.
update_exit(old_device) == old_device

\* fn of update / update_non_slot returns result or raises:
\* UpdateContext.__exit__, and what the call returns.
FinishUpdateFnWith(t, result) ==
  /\ \/ Leaving(t, "update")
     \/ Leaving(t, "update_non_slot")
  /\ LET f == TopFrame(t) IN
     /\ updateDevice' = [updateDevice EXCEPT ![t] = update_exit(f.old_device)]
     /\ frames' = [frames EXCEPT ![t] = PopFrame(t)]
     /\ last' = WithResult(
                  Event(t, f.kind, DefaultStrategy, NoContext, NoManager,
                        NoForm, Outcome(t), Propagating(err[t]), f.saved,
                        modeStack[t], f.savedScopes, varScopes[t], <<>>),
                  f.device,
                  IF status[t] = "raising" THEN None
                  ELSE [fn_result |-> result,
                        should_group |-> f.should_group,
                        returned |->
                          default_update_result(f.should_group, result)])
  /\ UNCHANGED <<inputContexts, modeStack, status, err, varScopes, contexts, batch>>

\* fn returns a structure without leaves, or raises.
FinishUpdateFn(t) == FinishUpdateFnWith(t, NoLeaves)

\* get_update_device()
get_update_device(t) == updateDevice[t]

\* The UpdateContext objects the code of thread t has constructed.
UpdateContexts(t) == frames[t][1].objects

\* UpdateContext.__init__; reentered records whether __enter__ has ever run
\* on the object while it was entered.
UpdateContext(device) ==
  [device |-> device, old_device |-> None, reentered |-> FALSE]

\* The most UpdateContext objects a program constructs, and the devices
\* it constructs them for.
MaxUpdateContexts == 2

UpdateContextDevices == {"device:0", "device:1"}

\* The UpdateContext object i of thread t is entered.
Entered(t, i) ==
  \E k \in 1..Len(frames[t]) :
    frames[t][k].kind = "update_context" /\ frames[t][k].uc = i

\* ctx = UpdateContext(device), a statement of the program outside every
\* with-block and function.
NewUpdateContext(t, device) ==
  /\ Running(t)
  /\ Len(frames[t]) = 1
  /\ Len(UpdateContexts(t)) < MaxUpdateContexts
  /\ frames' = [frames EXCEPT ![t][1].objects = Append(@, UpdateContext(device))]
  /\ last' = WithResult(Plain(t, "UpdateContext", None, NoContext, NoManager,
                              NoForm, "ok", NoError), device, None)
  /\ UNCHANGED <<inputContexts, modeStack, status, err, varScopes,
                 updateDevice, contexts, batch>>

\* An UpdateContext.__enter__ that leaves the current device as it is.
update_context_enter_keeps(object, current) ==
  [old_device |-> current, current |-> current]

\* UpdateContext.__enter__: _old_device of the object and the current
\* device afterwards.
update_context_enter(object, current) ==
  [old_device |-> current, current |-> object.device]

\* with ctx:  for the i-th UpdateContext object of the program:
\* ctx.__enter__, then the body of the with-block starts.
EnterUpdateContext(t, i) ==
  /\ Running(t)
  /\ CanNest(t)
  /\ i \in 1..Len(UpdateContexts(t))
  /\ LET object == UpdateContexts(t)[i]
         r == update_context_enter(object, get_update_device(t))
         f == [Frame("update_context", NoManager, NoContext, modeStack[t],
                     varScopes[t], get_update_device(t)) EXCEPT !.uc = i] IN
     /\ updateDevice' = [updateDevice EXCEPT ![t] = r.current]
     /\ frames' = [frames EXCEPT
          ![t] = Append([@ EXCEPT ![1].objects[i] =
                           [object EXCEPT
                              !.old_device = r.old_device,
                              !.reentered = @ \/ Entered(t, i)]],
                        f)]
     /\ last' = WithResult(Plain(t, "update_context", None, NoContext,
                                 NoManager, NoForm, "enter", NoError),
                           object.device, None)
     /\ UNCHANGED <<inputContexts, modeStack, status, err, varScopes, contexts,
                    batch>>

\* The body of with ctx: ends, or an error leaves it: ctx.__exit__ makes
\* ctx._old_device the current device. The value of the event is the device
\* that was current before the matching __enter__.
ExitUpdateContext(t) ==
  /\ Leaving(t, "update_context")
  /\ LET f == TopFrame(t)
         object == UpdateContexts(t)[f.uc] IN
     /\ updateDevice' = [updateDevice EXCEPT ![t] =
                           update_exit(object.old_device)]
     /\ frames' = [frames EXCEPT ![t] = PopFrame(t)]
     /\ last' = WithResult(
                  Event(t, "update_context", None, NoContext, NoManager,
                        NoForm, Outcome(t), Propagating(err[t]), f.saved,
                        modeStack[t], f.savedScopes, varScopes[t], <<>>),
                  f.old_device, None)
  /\ UNCHANGED <<inputContexts, modeStack, status, err, varScopes, contexts,
                 batch>>

\* User code calls get_update_device().
GetUpdateDevice(t) ==
  /\ Running(t)
  /\ ReturnsResult(t, "get_update_device", None, None, get_update_device(t))

\* ---------------------------------------------------------------------------
\* Wrapped values, unwrap and value_container.

\* The values unwrap and value_container are called with.
DistributedValues ==
  {Tensor("value:a"), Tensor("v/replica:1"),
   PerReplica(<<"value:a", "value:b">>)} \cup MirroredVariables

\* An unwrap that checks the mode as the guarded operations do.
unguarded_requires_cross_replica(stack, S) ==
  require_cross_replica_context(stack, S)

\* What unwrap and value_container check before they hand the value to the
\* strategy: nothing.
unguarded(stack, S) == NoError

\* A _unwrap that lists the value once per replica of a replicating strategy.
default_unwrap_per_replica(v) == Read(NoError, [i \in 1..NumReplicas |-> v])

\* _DefaultDistributionStrategy._unwrap
default_unwrap(v) == Read(NoError, <<v>>)

\* A value_container that finds no container and returns None.
default_value_container_none(v) == Read(NoError, Tensor(None))

\* _DefaultDistributionStrategy.value_container
default_value_container(v) == Read(NoError, v)

\* DistributionStrategy._unwrap
base_unwrap(v) == Read(NotImplementedError, None)

\* DistributionStrategy.value_container
base_value_container(v) == Read(NotImplementedError, None)

\* _unwrap of the replicating strategy: the constituents of a wrapped value,
\* in the order of the replicas; the one-element list for any other value.
replicated_unwrap(v) ==
  IF v.kind = "Tensor" THEN Read(NoError, <<v>>)
  ELSE Read(NoError, [i \in 1..Len(v.parts) |-> Tensor(v.parts[i])])

\* The mirrored variables that value v is a member of.
ContainersOf(v) ==
  {m \in MirroredVariables :
     v.kind = "Tensor" /\ \E i \in 1..Len(m.parts) : m.parts[i] = v.parts[1]}

\* value_container of the replicating strategy: the mirrored variable the
\* value is a member of, the value itself if there is none.
replicated_value_container(v) ==
  IF ContainersOf(v) = {} THEN Read(NoError, v)
  ELSE Read(NoError, CHOOSE m \in ContainersOf(v) : TRUE)

\* S.unwrap(v): the error raised, or the list returned.
unwrap(stack, S, v) ==
  LET e == unguarded(stack, S) IN
  IF e # NoError THEN Read(e, None)
  ELSE IF S = DefaultStrategy THEN default_unwrap(v)
  ELSE IF S = "s1" THEN replicated_unwrap(v)
  ELSE base_unwrap(v)

\* S.value_container(v): the error raised, or the container returned.
value_container(stack, S, v) ==
  LET e == unguarded(stack, S) IN
  IF e # NoError THEN Read(e, None)
  ELSE IF S = DefaultStrategy THEN default_value_container(v)
  ELSE IF S = "s1" THEN replicated_value_container(v)
  ELSE base_value_container(v)

\* The call op of thread t, handed value, is over without having called user
\* code: it gave r, the error it raised or the value it returned.
Completes(t, op, S, value, r) ==
  /\ status' = [status EXCEPT ![t] = IF r.err = NoError THEN @ ELSE "raising"]
  /\ err' = [err EXCEPT ![t] = IF r.err = NoError THEN @ ELSE r.err.type]
  /\ last' = WithResult(Plain(t, op, S, NoContext, NoManager, NoForm,
                              IF r.err = NoError THEN "ok" ELSE "raise",
                              r.err), value, r.result)
  /\ UNCHANGED <<inputContexts, modeStack, frames, varScopes, updateDevice,
                 contexts, batch>>

\* User code calls S.unwrap(v).
Unwrap(t, S, v) ==
  /\ Running(t)
  /\ Completes(t, "unwrap", S, v, unwrap(modeStack[t], S, v))

\* User code calls S.value_container(v).
ValueContainer(t, S, v) ==
  /\ Running(t)
  /\ Completes(t, "value_container", S, v, value_container(modeStack[t], S, v))

\* ---------------------------------------------------------------------------
\* InputContext.

\* The arguments InputContext is constructed with and the global batch sizes
\* asked about.
PipelineCounts == 0..2

PipelineIds == -1..1

ReplicaCounts == {-2, 0, 1, 2, 7, 8}

BatchSizes == {-4, -1, 0, 1, 3, 4, 8, 64}

\* Python's a // b and a % b on integers, for b # 0: the quotient is rounded
\* down and the remainder takes the sign of b.
floordiv(a, b) == IF b > 0 THEN a \div b ELSE (0 - a) \div (0 - b)

mod(a, b) == a - b * floordiv(a, b)

\* InputContext.__init__; oid is the identity of the object.
InputContext(num_input_pipelines, input_pipeline_id, replicas, oid) ==
  [num_input_pipelines |-> num_input_pipelines,
   input_pipeline_id |-> input_pipeline_id,
   num_replicas_in_sync |-> replicas, oid |-> oid]

\* InputContext.get_per_replica_batch_size: the error raised, or the result.
get_per_replica_batch_size(c, global_batch_size) ==
  IF c.num_replicas_in_sync = 0
    THEN Read(Error("ZeroDivisionError", "integer division or modulo by zero",
                    {}), None)
  ELSE IF mod(global_batch_size, c.num_replicas_in_sync) # 0
    THEN Read(Error("ValueError", "global_batch_size is not divisible", {}),
              None)
  ELSE Read(NoError, floordiv(global_batch_size, c.num_replicas_in_sync))

\* User code constructs an InputContext.
NewInputContext(t, num_input_pipelines, input_pipeline_id, replicas) ==
  LET c == InputContext(num_input_pipelines, input_pipeline_id, replicas,
                        Cardinality(inputContexts)) IN
  /\ Running(t)
  /\ Cardinality(inputContexts) < MaxInputContexts
  /\ inputContexts' = inputContexts \cup {c}
  /\ last' = WithResult(Plain(t, "InputContext", None, NoContext, NoManager,
                              NoForm, "ok", NoError), None, c)
  /\ UNCHANGED <<modeStack, frames, status, err, varScopes, updateDevice,
                 contexts, batch>>

\* User code calls c.get_per_replica_batch_size(global_batch_size).
GetPerReplicaBatchSize(t, c, global_batch_size) ==
  LET r == get_per_replica_batch_size(c, global_batch_size)
      outcome == IF r.err = NoError THEN "ok" ELSE "raise" IN
  /\ Running(t)
  /\ c \in inputContexts
  /\ status' = [status EXCEPT ![t] = IF r.err = NoError THEN @ ELSE "raising"]
  /\ err' = [err EXCEPT ![t] = IF r.err = NoError THEN @ ELSE r.err.type]
  /\ last' = WithResult(Plain(t, "get_per_replica_batch_size", None, NoContext,
                              NoManager, NoForm, outcome, r.err),
                        [input_context |-> c,
                         global_batch_size |-> global_batch_size], r.result)
  /\ UNCHANGED <<modeStack, frames, varScopes, updateDevice, contexts, batch,
                 inputContexts>>

\* ---------------------------------------------------------------------------
\* make_input_fn_iterator.

\* InputReplicationMode.PER_WORKER, and a value that is not a member of the
\* enumeration.
ReplicationModes == {"PER_WORKER", "PER_REPLICA"}

\* A tf.data.Dataset object.
Dataset(name) == [kind |-> "Dataset", parts |-> <<name>>]

\* What an input function returns.
InputFnResults == {Dataset("dataset:a"), Tensor("value:a")}

\* isinstance(result, dataset_ops.Dataset)
is_dataset(result) == result.kind = "Dataset"

\* A make_input_fn_iterator that accepts every replication mode.
replication_mode_check_any(replication_mode) == NoError

\* make_input_fn_iterator: the check of the replication mode.
replication_mode_check(replication_mode) ==
  IF replication_mode # "PER_WORKER"
    THEN Error("ValueError", "input replication mode not supported", {})
  ELSE NoError

\* InputContext(): every argument has its default.
DefaultInputContext(oid) == InputContext(1, 0, 1, oid)

\* _call_dataset_fn after dataset_fn returned result: the error raised, or
\* the result.
call_dataset_fn_result(result) ==
  IF ~is_dataset(result)
    THEN Read(Error("ValueError", "dataset_fn() must return a tf.data.Dataset",
                    {}), None)
  ELSE Read(NoError, result)

\* S.make_input_fn_iterator(input_fn, replication_mode), up to the call of
\* input_fn by _call_dataset_fn.
MakeInputFnIterator(t, S, replication_mode) ==
  LET e == replication_mode_check(replication_mode)
      c == DefaultInputContext(Cardinality(inputContexts)) IN
  /\ Running(t)
  /\ IF e # NoError
       THEN Completes(t, "make_input_fn_iterator", S,
                      [replication_mode |-> replication_mode], Read(e, None))
     ELSE IF S # DefaultStrategy
       THEN Completes(t, "make_input_fn_iterator", S,
                      [replication_mode |-> replication_mode],
                      Read(NotImplementedError, None))
     ELSE /\ CanNest(t)
          /\ Cardinality(inputContexts) < MaxInputContexts
          /\ inputContexts' = inputContexts \cup {c}
          /\ frames' = [frames EXCEPT ![t] =
               Append(@, Frame("input_fn", NoManager, NoContext, modeStack[t],
                               varScopes[t], None))]
          /\ last' = WithResult(
                       Plain(t, "make_input_fn_iterator", S, NoContext,
                             NoManager, NoForm, "enter", NoError),
                       [replication_mode |-> replication_mode,
                        input_context |-> c], None)
          /\ UNCHANGED <<modeStack, status, err, varScopes, updateDevice,
                         contexts, batch>>

\* input_fn returns result, or raises: the rest of _call_dataset_fn. The
\* call fails with the error that left input_fn, or with the ValueError for
\* a result that is not a dataset.
FinishInputFn(t, result) ==
  LET f == TopFrame(t)
      r == call_dataset_fn_result(result)
      raised == status[t] = "raising"
      error == IF raised THEN Propagating(err[t]) ELSE r.err IN
  /\ Leaving(t, "input_fn")
  /\ frames' = [frames EXCEPT ![t] = PopFrame(t)]
  /\ status' = [status EXCEPT ![t] =
       IF error = NoError THEN "running" ELSE "raising"]
  /\ err' = [err EXCEPT ![t] = error.type]
  /\ last' = WithResult(
               Event(t, "make_input_fn_iterator", DefaultStrategy, NoContext,
                     NoManager, NoForm,
                     IF error = NoError THEN "returned" ELSE "failed", error,
                     f.saved, modeStack[t], f.savedScopes, varScopes[t], <<>>),
               IF raised THEN None ELSE result,
               IF error = NoError THEN r.result ELSE None)
  /\ UNCHANGED <<inputContexts, modeStack, varScopes, updateDevice, contexts,
                 batch>>

\* ---------------------------------------------------------------------------
\* non_slot_devices.

\* The length of the longest var_list tried.
MaxVarList == 3

\* Characters are numbered in the order of their code points; a name is a
\* sequence of them, and str.__lt__ is the lexicographic order.
RECURSIVE name_less(_, _)
name_less(a, b) ==
  IF b = <<>> THEN FALSE
  ELSE IF a = <<>> THEN TRUE
  ELSE IF a[1] # b[1] THEN a[1] < b[1]
  ELSE name_less(Tail(a), Tail(b))

\* A variable object: two distinct variables may bear the same name.
Variable(name, oid) == [name |-> name, oid |-> oid]

VariableObjects ==
  {Variable(<<1, 2>>, 1), Variable(<<1>>, 2), Variable(<<1, 2>>, 3),
   Variable(<<2>>, 4)}

VarLists ==
  UNION {[1..n -> VariableObjects] : n \in 0..MaxVarList}

\* A min that keeps the last of the elements with the smallest key.
RECURSIVE min_by_name_last(_, _)
min_by_name_last(best, rest) ==
  IF rest = <<>> THEN best
  ELSE IF ~name_less(best.name, rest[1].name)
    THEN min_by_name_last(rest[1], Tail(rest))
  ELSE min_by_name_last(best, Tail(rest))

\* min(var_list, key=lambda x: x.name) after the first element: an element
\* replaces the best so far only when its key is smaller.
RECURSIVE min_by_name(_, _)
min_by_name(best, rest) ==
  IF rest = <<>> THEN best
  ELSE IF name_less(rest[1].name, best.name)
    THEN min_by_name(rest[1], Tail(rest))
  ELSE min_by_name(best, Tail(rest))

\* _DefaultDistributionStrategy.non_slot_devices
default_non_slot_devices(var_list) ==
  IF var_list = <<>>
    THEN Read(Error("ValueError", "min() arg is an empty sequence", {}), None)
    ELSE Read(NoError, min_by_name(var_list[1], Tail(var_list)))

\* S.non_slot_devices(var_list): no guard; the base class does not
\* implement it.
non_slot_devices(S, var_list) ==
  IF S = DefaultStrategy THEN default_non_slot_devices(var_list)
  ELSE Read(NotImplementedError, None)

NonSlotDevices(t, S, var_list) ==
  /\ Running(t)
  /\ Completes(t, "non_slot_devices", S, var_list,
               non_slot_devices(S, var_list))

\* ---------------------------------------------------------------------------
\* The specification.

\* What the user code of any thread does.
UserStep(t) ==
  \/ \E S \in Strategies : WithScope(t, S)
  \/ ExitScope(t)
  \/ Raise(t)
  \/ Catch(t)
  \/ \E R \in contexts, form \in ArgForms : MergeCall(t, R, form)
  \/ FinishMergeFn(t)
  \/ \E S \in Strategies, a \in Aggregations, v \in Values,
          d \in Destinations : Reduce(t, S, a, v, d)
  \/ StartReplicaThread(t)
  \/ FinishReplicaThread(t, NoResult)

\* What the user code of the program's thread does besides; the user code
\* of a replica thread is limited to the steps above.
MainStep(t) ==
  \/ \E S \in Strategies, form \in ArgForms : CallForEachReplica(t, S, form)
  \/ \E v \in Values : FinishReplicaFn(t, v)
  \/ JoinReplicas(t)
  \/ \E S \in Strategies, pairs \in {<<>>, <<<<"value:a", None>>>>} :
       BatchReduce(t, S, "ReduceOp.SUM", pairs)
  \/ \E S \in Strategies, v \in Values, d \in Destinations :
       Broadcast(t, S, v, d)
  \/ \E S \in Strategies : RunStepsOnDataset(t, S)
  \/ \E S \in Strategies, v \in Variables, form \in ArgForms :
       Update(t, S, v, form)
  \/ \E S \in Strategies, v \in Variables, form \in ArgForms :
       UpdateNonSlot(t, S, v, form)
  \/ FinishUpdateFn(t)

Next ==
  \/ \E t \in Threads : UserStep(t)
  \/ MainStep(MainThread)

Spec == Init /\ [][Next]_vars

\* User code that enters scopes, runs replica functions and merge functions,
\* and creates variables in them.
VarStep(t) ==
  \/ \E S \in Strategies : WithScope(t, S)
  \/ ExitScope(t)
  \/ \E S \in Strategies : WithColocateVarsWith(t, S)
  \/ ExitColocateVarsWith(t)
  \/ \E delegates \in BOOLEAN : CreateVariable(t, delegates)
  \/ Raise(t)
  \/ Catch(t)
  \/ \E R \in contexts : MergeCall(t, R, NoForm)
  \/ FinishMergeFn(t)
  \/ StartReplicaThread(t)
  \/ FinishReplicaThread(t, NoResult)

VarMainStep(t) ==
  \/ \E S \in Strategies : CallForEachReplica(t, S, NoForm)
  \/ \E v \in Values : FinishReplicaFn(t, v)
  \/ JoinReplicas(t)

NextVars ==
  \/ \E t \in Threads : VarStep(t)
  \/ VarMainStep(MainThread)

SpecVars == Init /\ [][NextVars]_vars

\* User code that runs replica functions and merge functions and reads the
\* properties of replica contexts in them.
ContextStep(t) ==
  \/ \E S \in Strategies : WithScope(t, S)
  \/ ExitScope(t)
  \/ \E R \in contexts : ReadReplicaIdInSyncGroup(t, R)
  \/ \E R \in contexts : ReadDevices(t, R)
  \/ \E R \in contexts : ReadDistributionStrategy(t, R)
  \/ Raise(t)
  \/ Catch(t)
  \/ \E R \in contexts : MergeCall(t, R, NoForm)
  \/ FinishMergeFn(t)
  \/ StartReplicaThread(t)
  \/ FinishReplicaThread(t, NoResult)

NextContexts ==
  \/ \E t \in Threads : ContextStep(t)
  \/ VarMainStep(MainThread)

SpecContexts == Init /\ [][NextContexts]_vars

\* User code that constructs InputContext objects and asks them for the
\* per-replica batch size.
NextInput ==
  \/ \E p \in PipelineCounts, i \in PipelineIds, r \in ReplicaCounts :
       NewInputContext(MainThread, p, i, r)
  \/ \E c \in inputContexts, g \in BatchSizes :
       GetPerReplicaBatchSize(MainThread, c, g)
  \/ Catch(MainThread)

SpecInput == Init /\ [][NextInput]_vars

\* Every way of passing the arguments meant for fn.
AllArgForms == [pos : BOOLEAN, args : BOOLEAN, kw : BOOLEAN, kwargs : BOOLEAN]

\* User code that calls the operations taking a function and its arguments,
\* in every argument form.
ArgStep(t) ==
  \/ \E S \in Strategies : WithScope(t, S)
  \/ ExitScope(t)
  \/ Catch(t)
  \/ \E R \in contexts, form \in AllArgForms : MergeCall(t, R, form)
  \/ FinishMergeFn(t)
  \/ StartReplicaThread(t)
  \/ FinishReplicaThread(t, NoResult)

ArgMainStep(t) ==
  \/ \E S \in Strategies, form \in AllArgForms : CallForEachReplica(t, S, form)
  \/ \E v \in Values : FinishReplicaFn(t, v)
  \/ JoinReplicas(t)
  \/ \E S \in Strategies, v \in Variables, form \in AllArgForms :
       Update(t, S, v, form)
  \/ \E S \in Strategies, v \in Variables, form \in AllArgForms :
       UpdateNonSlot(t, S, v, form)
  \/ FinishUpdateFn(t)

NextArgs ==
  \/ \E t \in Threads : ArgStep(t)
  \/ ArgMainStep(MainThread)

SpecArgs == Init /\ [][NextArgs]_vars

\* The variables and devices update and update_non_slot are called with.
UpdateTargets == {"var:a", "var:b"}

\* User code that updates variables inside scopes and asks for the update
\* device.
NextUpdate ==
  \/ \E S \in Strategies : WithScope(MainThread, S)
  \/ ExitScope(MainThread)
  \/ Raise(MainThread)
  \/ Catch(MainThread)
  \/ \E S \in Strategies, v \in UpdateTargets, form \in ArgForms :
       Update(MainThread, S, v, form)
  \/ \E S \in Strategies, v \in UpdateTargets, form \in ArgForms :
       UpdateNonSlot(MainThread, S, v, form)
  \/ FinishUpdateFn(MainThread)
  \/ GetUpdateDevice(MainThread)

SpecUpdate == Init /\ [][NextUpdate]_vars

\* User code that enters scopes, replica functions and merge functions on
\* the program's thread and unwraps values in them.
NextValues ==
  \/ \E S \in Strategies : WithScope(MainThread, S)
  \/ ExitScope(MainThread)
  \/ Catch(MainThread)
  \/ CallForEachReplica(MainThread, DefaultStrategy, NoForm)
  \/ \E v \in Values : FinishReplicaFn(MainThread, v)
  \/ \E R \in contexts : MergeCall(MainThread, R, NoForm)
  \/ FinishMergeFn(MainThread)
  \/ \E S \in Strategies, v \in DistributedValues : Unwrap(MainThread, S, v)
  \/ \E S \in Strategies, v \in DistributedValues :
       ValueContainer(MainThread, S, v)

SpecValues == Init /\ [][NextValues]_vars

\* A value and the destinations to reduce it to.
ValueDestinationPairs == Values \X Destinations

\* Most pairs in one batch_reduce.
MaxPairs == 2

\* The sequences of pairs batch_reduce is called with.
PairLists ==
  UNION {[1..n -> ValueDestinationPairs] : n \in 0..MaxPairs}

\* User code that reduces values, one at a time and in batches.
NextReduce ==
  \/ \E S \in Strategies : WithScope(MainThread, S)
  \/ ExitScope(MainThread)
  \/ Catch(MainThread)
  \/ \E R \in contexts : MergeCall(MainThread, R, NoForm)
  \/ FinishMergeFn(MainThread)
  \/ \E S \in Strategies, a \in Aggregations, v \in Values,
          d \in Destinations : Reduce(MainThread, S, a, v, d)
  \/ \E S \in Strategies, a \in Aggregations, pairs \in PairLists :
       BatchReduce(MainThread, S, a, pairs)

SpecReduce == Init /\ [][NextReduce]_vars

\* What a replica function returns: a tuple of a value and a member of the
\* mirrored variable.
ReplicaResults ==
  {<<Tensor(a), Tensor(v)>> :
     a \in Values, v \in {"v/replica:0", "v/replica:1"}}

\* User code that runs replica functions that return results.
NextMerge ==
  \/ \E S \in Strategies : WithScope(MainThread, S)
  \/ ExitScope(MainThread)
  \/ \E t \in Threads : Raise(t)
  \/ Catch(MainThread)
  \/ \E S \in Strategies : CallForEachReplica(MainThread, S, NoForm)
  \/ \E v \in ReplicaResults : FinishReplicaFn(MainThread, v)
  \/ \E t \in Threads : StartReplicaThread(t)
  \/ \E t \in Threads, v \in ReplicaResults : FinishReplicaThread(t, v)
  \/ JoinReplicas(MainThread)

SpecMerge == Init /\ [][NextMerge]_vars

\* User code that calls the operations whose hooks a strategy has to
\* implement, on strategies that do and on one that does not.
NextHooks ==
  \/ \E S \in Strategies : WithScope(MainThread, S)
  \/ ExitScope(MainThread)
  \/ Catch(MainThread)
  \/ \E S \in {DefaultStrategy, "s2"}, form \in ArgForms :
       CallForEachReplica(MainThread, S, form)
  \/ \E v \in Values : FinishReplicaFn(MainThread, v)
  \/ \E S \in Strategies, a \in Aggregations, v \in Values,
          d \in Destinations : Reduce(MainThread, S, a, v, d)
  \/ \E S \in Strategies, v \in Values, d \in Destinations :
       Broadcast(MainThread, S, v, d)
  \/ \E S \in Strategies, v \in Variables, form \in ArgForms :
       Update(MainThread, S, v, form)
  \/ \E S \in Strategies, v \in Variables, form \in ArgForms :
       UpdateNonSlot(MainThread, S, v, form)
  \/ FinishUpdateFn(MainThread)
  \/ \E S \in Strategies, v \in DistributedValues : Unwrap(MainThread, S, v)
  \/ \E S \in Strategies, v \in DistributedValues :
       ValueContainer(MainThread, S, v)

SpecHooks == Init /\ [][NextHooks]_vars

\* User code that makes iterators from input functions, which may ask the
\* InputContext they are given for the per-replica batch size.
NextInputFn ==
  \/ \E S \in Strategies : WithScope(MainThread, S)
  \/ ExitScope(MainThread)
  \/ Raise(MainThread)
  \/ Catch(MainThread)
  \/ \E S \in Strategies, mode \in ReplicationModes :
       MakeInputFnIterator(MainThread, S, mode)
  \/ \E result \in InputFnResults : FinishInputFn(MainThread, result)
  \/ \E c \in inputContexts, g \in {3, 8} :
       GetPerReplicaBatchSize(MainThread, c, g)

SpecInputFn == Init /\ [][NextInputFn]_vars

\* User code that calls merge_call in replica functions and, in the merge
\* functions, the cross-replica operations, variable creation included.
MergeFnStep(t) ==
  \/ \E S \in Strategies : WithScope(t, S)
  \/ ExitScope(t)
  \/ Catch(t)
  \/ \E R \in contexts : MergeCall(t, R, NoForm)
  \/ FinishMergeFn(t)
  \/ \E S \in Strategies : Reduce(t, S, "ReduceOp.SUM", "value:a", None)
  \/ CreateVariable(t, TRUE)
  \/ StartReplicaThread(t)
  \/ FinishReplicaThread(t, NoResult)

MergeFnMainStep(t) ==
  \/ \E S \in Strategies : CallForEachReplica(t, S, NoForm)
  \/ FinishReplicaFn(t, "value:a")
  \/ JoinReplicas(t)
  \/ \E S \in Strategies : BatchReduce(t, S, "ReduceOp.SUM", <<>>)
  \/ \E S \in Strategies : Broadcast(t, S, "value:a", None)
  \/ \E S \in Strategies, v \in Variables : Update(t, S, v, NoForm)
  \/ \E S \in Strategies, v \in Variables : UpdateNonSlot(t, S, v, NoForm)
  \/ FinishUpdateFn(t)

NextMergeFn ==
  \/ \E t \in Threads : MergeFnStep(t)
  \/ MergeFnMainStep(MainThread)

SpecMergeFn == Init /\ [][NextMergeFn]_vars

\* What fn of an update returns in the calls that pass grouping flags.
FnResults ==
  {Leaf("a"),
   Nest("tuple", <<Leaf("a"), Leaf("b")>>),
   Nest("tuple", <<Leaf("a"), Nest("list", <<Leaf("b"), Leaf("c")>>)>>),
   NoLeaves}

\* The forms of the calls that pass grouping flags.
FlagForms ==
  {NoForm, ArgForm(TRUE, FALSE, TRUE, FALSE), ArgForm(FALSE, TRUE, FALSE, TRUE)}

\* User code, in and out of the scope of the default strategy, that calls
\* update and update_non_slot with and without the grouping flags.
NextGroup ==
  \/ WithScope(MainThread, DefaultStrategy)
  \/ ExitScope(MainThread)
  \/ Raise(MainThread)
  \/ Catch(MainThread)
  \/ \E v \in Variables, form \in FlagForms, group \in Flags, grouped \in Flags :
       UpdateOpFlags(MainThread, DefaultStrategy, "update", v, form, group,
                     grouped)
  \/ \E v \in Variables, form \in FlagForms, group \in Flags, grouped \in Flags :
       UpdateOpFlags(MainThread, DefaultStrategy, "update_non_slot", v, form,
                     group, grouped)
  \/ \E result \in FnResults : FinishUpdateFnWith(MainThread, result)

SpecGroup == Init /\ [][NextGroup]_vars

\* User code, in and out of a scope, that asks for the non-slot device of
\* lists of variables.
NextNonSlot ==
  \/ \E S \in Strategies : WithScope(MainThread, S)
  \/ ExitScope(MainThread)
  \/ Catch(MainThread)
  \/ \E S \in Strategies, var_list \in VarLists :
       NonSlotDevices(MainThread, S, var_list)

SpecNonSlot == Init /\ [][NextNonSlot]_vars

\* User code that enters scopes whose entry may fail, and calls reduce.
NextEnter ==
  \/ \E S \in Strategies : WithScope(MainThread, S)
  \/ \E S \in Strategies, i \in 1..Len(Collaborators) :
       WithScopeFailing(MainThread, S, Collaborators[i])
  \/ ExitScope(MainThread)
  \/ Raise(MainThread)
  \/ Catch(MainThread)
  \/ \E S \in Strategies :
       Reduce(MainThread, S, "ReduceOp.SUM", "value:a", None)

SpecEnter == Init /\ [][NextEnter]_vars

\* User code that gets context managers from scope() at the top of the
\* program and enters them later, and calls call_for_each_replica and
\* merge_call in the scopes.
NextDeferred ==
  \/ \E S \in Strategies : WithScope(MainThread, S)
  \/ \E S \in Strategies : ObtainScope(MainThread, S)
  \/ \E i \in 1..MaxHeld : EnterObtained(MainThread, i)
  \/ ExitScope(MainThread)
  \/ Catch(MainThread)
  \/ CallForEachReplica(MainThread, DefaultStrategy, NoForm)
  \/ FinishReplicaFn(MainThread, "value:a")
  \/ \E R \in contexts : MergeCall(MainThread, R, NoForm)
  \/ FinishMergeFn(MainThread)

SpecDeferred == Init /\ [][NextDeferred]_vars

\* User code that constructs UpdateContext objects and nests their
\* with-blocks, also in the update functions of the default strategy.
NextUpdateContexts ==
  \/ \E device \in UpdateContextDevices : NewUpdateContext(MainThread, device)
  \/ \E i \in 1..MaxUpdateContexts : EnterUpdateContext(MainThread, i)
  \/ ExitUpdateContext(MainThread)
  \/ Raise(MainThread)
  \/ Catch(MainThread)
  \/ WithScope(MainThread, DefaultStrategy)
  \/ ExitScope(MainThread)
  \/ \E v \in Variables :
       UpdateNonSlot(MainThread, DefaultStrategy, v, NoForm)
  \/ FinishUpdateFn(MainThread)
  \/ GetUpdateDevice(MainThread)

SpecUpdateContexts == Init /\ [][NextUpdateContexts]_vars

\* A program that enters scopes and nests call_for_each_replica and
\* merge_call of the default strategy in each other, with errors raised and
\* caught at every level.
NextNesting ==
  \/ \E S \in Strategies : WithScope(NestingThread, S)
  \/ ExitScope(NestingThread)
  \/ CallForEachReplica(NestingThread, DefaultStrategy, NoForm)
  \/ FinishReplicaFn(NestingThread, "value:a")
  \/ \E R \in contexts : MergeCall(NestingThread, R, NoForm)
  \/ FinishMergeFn(NestingThread)
  \/ Raise(NestingThread)
  \/ Catch(NestingThread)

SpecNesting == InitNesting /\ [][NextNesting]_vars

\* ---------------------------------------------------------------------------
\* Properties.

\* The call that the latest step made or finished is over.
Over == last.outcome \in {"ok", "raise", "returned", "failed"}

\* The latest step finished a call that had run user code.
Finished(op) == last.op = op /\ last.outcome \in {"returned", "failed"}

\* The code of the body on top of thread t is of this kind.
Executing(t, kind) == Len(frames[t]) > 0 /\ TopFrame(t).kind = kind

\* C1: merge_call on replica context R of strategy S is made in the mode
\* InReplica{R}; while merge_fn executes the top mode is CrossReplica{S}; and
\* when merge_call is over, merge_fn having returned or raised, the top mode
\* is InReplica{R} again.
C1_MergeCallSwitchesMode ==
  /\ \A t \in Threads :
       Executing(t, "merge_fn") =>
         LET f == TopFrame(t) IN
         /\ get_per_thread_mode(modeStack[t])
              = CrossReplicaThreadMode(f.ctx.distribution_strategy)
         /\ get_per_thread_mode(f.saved) = InReplicaThreadMode(f.ctx)
  /\ Finished("merge_call") =>
       /\ get_per_thread_mode(modeStack[last.thread])
            = InReplicaThreadMode(last.ctx)
       /\ modeStack[last.thread] = last.before

\* merge_fn raised inside a replica function of a call_for_each_replica,
\* and merge_call is over.
C1_Witness ==
  /\ last.op = "merge_call"
  /\ last.outcome = "failed"
  /\ last.ctx # DefaultReplicaContext

\* C2: when a call_for_each_replica is over, whatever its outcome, the mode
\* stack of the calling thread is the one it had at the call.
C2_CallForEachReplicaKeepsStack ==
  (last.op = "call_for_each_replica" /\ Over) =>
    modeStack[last.thread] = last.before

\* A call_for_each_replica made with a non-empty mode stack is over because
\* an error left the replica function.
C2_Witness ==
  /\ last.op = "call_for_each_replica"
  /\ last.outcome = "failed"
  /\ Len(last.before) > 0

GuardedOps ==
  {"call_for_each_replica", "reduce", "batch_reduce", "update",
   "update_non_slot", "broadcast", "run_steps_on_dataset"}

\* The errors of the cross-replica guard.
ModeViolation(e) ==
  /\ e.type = "RuntimeError"
  /\ e.msg \in {"need to be inside scope", "mixing different strategies",
                "requires cross-replica context, use merge_call"}

\* The latest step called op: it raised, returned or reached user code.
Called == last.outcome \in {"enter", "ok", "raise"}

\* C3: a guarded operation called on strategy S raises a mode violation
\* exactly when the top mode of the calling thread is not CrossReplica{S}.
C3_GuardedOpsRequireCrossReplica ==
  (last.op \in GuardedOps /\ Called) =>
    ((get_per_thread_mode(last.before) # CrossReplicaThreadMode(last.strategy))
       <=> (last.outcome = "raise" /\ ModeViolation(last.err)))

\* reduce was called on the strategy of a replica context from inside its
\* replica function, and raised.
C3_Witness ==
  /\ last.op = "reduce"
  /\ last.outcome = "raise"
  /\ get_per_thread_mode(last.before).replica_context # NoContext
  /\ get_per_thread_mode(last.before).replica_context # DefaultReplicaContext
  /\ get_per_thread_mode(last.before).distribution_strategy = last.strategy

\* Replica thread t is inside a merge function.
InMergeFn(t) == \E i \in 1..Len(frames[t]) : frames[t][i].kind = "merge_fn"

\* C4: of the replica threads of one call_for_each_replica, at most one is
\* inside merge_fn at any time.
C4_MergeFnSerialized ==
  batch.active => Cardinality({t \in ReplicaThreads : InMergeFn(t)}) <= 1

\* One replica thread is inside merge_fn while another, in its replica
\* function, is ready to call merge_call on its own context.
C4_Witness ==
  \E t, u \in ReplicaThreads :
    /\ t # u
    /\ InMergeFn(t)
    /\ Running(u)
    /\ Executing(u, "replica_fn")
    /\ merge_call_check(modeStack[u], batch.ctxs[u], NoForm) = NoError

\* C5: a step of one thread leaves the mode stack of every other thread, and
\* so the outcome of every guard there, as they were.
C5_ModeStackPerThread ==
  [][\A u \in Threads :
       u # last'.thread =>
         /\ modeStack'[u] = modeStack[u]
         /\ \A S \in Strategies :
              require_cross_replica_context(modeStack'[u], S)
                = require_cross_replica_context(modeStack[u], S)]_vars

\* A replica thread has just pushed CrossReplica in merge_call while another
\* replica thread is in its replica mode and the program's thread in a scope.
C5_Witness ==
  /\ last.op = "merge_call"
  /\ last.outcome = "enter"
  /\ last.thread \in ReplicaThreads
  /\ modeStack[MainThread] # <<>>
  /\ \E u \in ReplicaThreads \ {last.thread} :
       get_per_thread_mode(modeStack[u]) = InReplicaThreadMode(batch.ctxs[u])

\* The bodies thread last.thread was executing when the latest call was made.
FramesAtCall ==
  IF last.outcome = "enter"
    THEN SubSeq(frames[last.thread], 1, Len(frames[last.thread]) - 1)
    ELSE frames[last.thread]

\* The scope of strategy A had been entered, and not exited, at the latest
\* call.
ScopeActive(A) ==
  \E i \in 1..Len(FramesAtCall) :
    /\ FramesAtCall[i].kind = "scope_body"
    /\ FramesAtCall[i].cm.strategy = A

C7_Original ==
  (last.op = "scope" /\ Called /\ ScopeActive(last.strategy)) =>
    /\ last.outcome = "enter"
    /\ last.cm.cls = "same"
    /\ last.after = last.before
    /\ last.scopesAfter = last.scopesBefore

\* C7, amended: for a strategy S other than the default one, S.scope() called
\* with top mode CrossReplica{S} returns a pass-through manager whose enter
\* and exit change neither mode stack nor scopes; called with top mode
\* InReplica of a context of S it raises the cross-replica guard's error.
C7_SameScopeAgain ==
  /\ (last.op = "scope" /\ Called /\ last.strategy # DefaultStrategy) =>
       LET mode == get_per_thread_mode(last.before) IN
       /\ mode = CrossReplicaThreadMode(last.strategy) =>
            /\ last.outcome = "enter"
            /\ last.cm = SameScopeAgainContext(last.strategy)
            /\ modeStack[last.thread] = last.before
            /\ varScopes[last.thread] = last.scopesBefore
       /\ (mode.cross_replica_context = None
             /\ mode.distribution_strategy = last.strategy) =>
            /\ last.outcome = "raise"
            /\ last.err.msg = "requires cross-replica context, use merge_call"
            /\ modeStack[last.thread] = last.before
  /\ (last.op = "scope_exit" /\ last.cm.cls = "same") =>
       /\ modeStack[last.thread] = last.before
       /\ varScopes[last.thread] = last.scopesBefore
       /\ last.log = <<>>

\* A pass-through scope entered inside a merge function of a replicating
\* strategy has been left.
C7_Witness ==
  /\ last.op = "scope_exit"
  /\ last.cm.cls = "same"
  /\ last.thread \in ReplicaThreads
  /\ Executing(last.thread, "merge_fn")

\* The order in which the exit of a manager that installed the policy unwinds.
ExpectedUnwind(cm) ==
  (IF cm.device # None THEN <<"device">> ELSE <<>>)
    \o <<"var_creator">>
    \o (IF cm.var_scope THEN <<"var_scope">> ELSE <<>>)
    \o <<"mode">>

\* C8: the exit of a scope that installed the policy unwinds device scope,
\* variable creator scope (then the variable scope), mode, on return and on
\* error alike, and leaves mode stack and scopes as they were before entry.
C8_ScopeExitUnwinds ==
  (last.op = "scope_exit" /\ last.cm.cls = "current") =>
    /\ last.log = ExpectedUnwind(last.cm)
    /\ modeStack[last.thread] = last.before
    /\ varScopes[last.thread] = last.scopesBefore

\* An error left the body of a scope that had installed a device scope.
C8_Witness ==
  /\ last.op = "scope_exit"
  /\ last.cm.cls = "current"
  /\ last.cm.device # None
  /\ last.outcome = "failed"

\* The replica functions being executed, as <<thread, depth>> pairs.
ReplicaFns ==
  {p \in Threads \X (1..MaxDepth + MaxReplicaDepth) :
     p[2] <= Len(frames[p[1]]) /\ frames[p[1]][p[2]].kind = "replica_fn"}

\* C9: one call_for_each_replica of a strategy with n replicas constructs n
\* fresh replica contexts with ids 0..n-1, and each fn runs with its own
\* context as the top mode.
C9_ReplicaContexts ==
  /\ \A t \in Threads :
       Executing(t, "replica_fn") =>
         get_per_thread_mode(modeStack[t]) = InReplicaThreadMode(TopFrame(t).ctx)
  /\ \A p, q \in ReplicaFns :
       /\ frames[p[1]][p[2]].ctx # DefaultReplicaContext
       /\ frames[p[1]][p[2]].ctx \in contexts
       /\ frames[p[1]][p[2]].ctx.oid = frames[q[1]][q[2]].ctx.oid => p = q
  /\ \A R1, R2 \in contexts : R1.oid = R2.oid => R1 = R2
  /\ (last.op = "call_for_each_replica" /\ last.outcome = "enter"
        /\ last.strategy = DefaultStrategy) =>
       /\ {last.ctx.replica_id_in_sync_group}
            = 0..(num_replicas_in_sync(DefaultStrategy) - 1)
       /\ last.ctx.oid = Cardinality(contexts) - 1
       /\ TopFrame(last.thread).ctx = last.ctx
  /\ batch.active =>
       /\ Len(batch.ctxs) = num_replicas_in_sync("s1")
       /\ {batch.ctxs[i].replica_id_in_sync_group : i \in 1..Len(batch.ctxs)}
            = 0..(num_replicas_in_sync("s1") - 1)
       /\ \A i, j \in 1..Len(batch.ctxs) :
            batch.ctxs[i].oid = batch.ctxs[j].oid => i = j
       /\ \A r \in ReplicaThreads :
            Len(frames[r]) > 0 => frames[r][1].ctx = batch.ctxs[r]

\* Every replica of one call_for_each_replica is executing its fn.
C9_Witness ==
  /\ batch.active
  /\ \A r \in ReplicaThreads : Running(r) /\ Executing(r, "replica_fn")

\* C10: when an error leaves a replica function, call_for_each_replica ends
\* with that error propagating to its caller, and by then the InReplica mode
\* of every replica has been popped.
C10_ReplicaFailurePropagates ==
  /\ (last.op = "call_for_each_replica" /\ last.outcome = "failed") =>
       /\ status[last.thread] = "raising"
       /\ err[last.thread] # None
       /\ err[last.thread] = last.err.type
       /\ modeStack[last.thread] = last.before
       /\ last.strategy = "s1" =>
            /\ \A r \in ReplicaThreads : modeStack[r] = <<>>
            /\ \E r \in ReplicaThreads : last.log[r] = "failed"
  /\ (last.op = "call_for_each_replica" /\ last.outcome = "returned"
        /\ last.strategy = "s1") =>
       \A r \in ReplicaThreads : last.log[r] = "returned"
  /\ (last.op = "replica_fn" /\ last.outcome = "failed") =>
       /\ batch.outcome[last.thread] = "failed"
       /\ batch.errs[last.thread] = last.err.type
       /\ modeStack[last.thread] = <<>>

\* Of the replicas of one call_for_each_replica one returned and one failed,
\* and the call is over.
C10_Witness ==
  /\ last.op = "call_for_each_replica"
  /\ last.strategy = "s1"
  /\ last.outcome = "failed"
  /\ \E r \in ReplicaThreads : last.log[r] = "returned"

\* The top mode of this stack is the replica mode of a context of S.
InReplicaContextOf(stack, S) ==
  LET mode == get_per_thread_mode(stack) IN
  /\ mode.replica_context # NoContext
  /\ mode.replica_context.distribution_strategy = S

\* C11, as claimed: the guard's error is 'need to be inside scope' iff no
\* strategy scope is active, 'mixing' iff a different strategy is current,
\* 'requires cross-replica context' iff the thread is in a replica context
\* of S.
C11_Original ==
  \A t \in Threads, S \in Strategies :
    LET stack == modeStack[t]
        e == require_cross_replica_context(stack, S) IN
    e # NoError =>
      /\ e.msg = "need to be inside scope" <=> ~has_distribution_strategy(stack)
      /\ e.msg = "mixing different strategies" <=>
           (has_distribution_strategy(stack)
              /\ get_distribution_strategy(stack) # S)
      /\ e.msg = "requires cross-replica context, use merge_call" <=>
           InReplicaContextOf(stack, S)

\* C11, amended: when the guard for S fails it raises a RuntimeError of one of
\* three kinds: 'need to be inside scope' iff the current strategy is the
\* default one and S is not; 'mixing' iff the current strategy is neither the
\* default one nor S; 'requires cross-replica context' iff the top mode is the
\* replica mode of a context of S (the default mode included, for the default
\* strategy).  A guarded operation that fails its guard raises that error.
C11_GuardErrorKinds ==
  /\ \A t \in Threads, S \in Strategies :
       LET stack == modeStack[t]
           e == require_cross_replica_context(stack, S) IN
       e # NoError =>
         /\ ModeViolation(e)
         /\ e.msg = "need to be inside scope" <=>
              (~has_distribution_strategy(stack) /\ S # DefaultStrategy)
         /\ e.msg = "mixing different strategies" <=>
              (has_distribution_strategy(stack)
                 /\ get_distribution_strategy(stack) # S)
         /\ e.msg = "requires cross-replica context, use merge_call" <=>
              InReplicaContextOf(stack, S)
  /\ (last.op \in GuardedOps /\ last.outcome = "raise"
        /\ ModeViolation(last.err)) =>
       last.err = require_cross_replica_context(last.before, last.strategy)

\* A guarded operation of one strategy was called inside a replica function of
\* another and raised the mixing error.
C11_Witness ==
  /\ last.op \in GuardedOps
  /\ last.outcome = "raise"
  /\ last.err.msg = "mixing different strategies"
  /\ get_per_thread_mode(last.before).replica_context # NoContext

\* C12: require_replica_context(R) succeeds iff the top mode is InReplica{R}
\* for that very object; it reports 'need to be inside call_for_each_replica'
\* when the top mode has no replica context and mismatching strategies when
\* the top mode's replica context belongs to another strategy.
C12_RequireReplicaContext ==
  /\ \A t \in Threads, R \in contexts :
       LET mode == get_per_thread_mode(modeStack[t])
           e == require_replica_context(modeStack[t], R) IN
       /\ e = NoError <=> mode = InReplicaThreadMode(R)
       /\ e # NoError => e.type = "RuntimeError"
       /\ mode.replica_context = NoContext =>
            e.msg = "need to be inside call_for_each_replica"
       /\ (mode.replica_context # NoContext
             /\ mode.replica_context.distribution_strategy
                  # R.distribution_strategy) =>
            /\ e.msg = "mismatching strategies"
            /\ e.names = {mode.distribution_strategy, R.distribution_strategy}
  /\ (last.op = "merge_call" /\ last.outcome = "raise"
        /\ last.err.type = "RuntimeError") =>
       last.err = require_replica_context(last.before, last.ctx)
  /\ (last.op = "merge_call" /\ last.outcome = "enter") =>
       get_per_thread_mode(last.before) = InReplicaThreadMode(last.ctx)

\* merge_call of a context was refused inside the replica function of
\* another context of the same strategy.
C12_Witness ==
  /\ last.op = "merge_call"
  /\ last.outcome = "raise"
  /\ last.err.msg = "mismatching replica context"
  /\ last.before # <<>>

\* The errors _require_distribution_strategy_scope raises.
ScopeViolation(e) ==
  /\ e.type = "RuntimeError"
  /\ e.msg \in {"need to be inside scope", "mixing different strategies"}

\* C13, as claimed: the strategy-scope guard for S passes only when the top
\* mode is CrossReplica{S}.
C13_Original ==
  \A t \in Threads, S \in Strategies :
    require_distribution_strategy_scope(modeStack[t], S) = NoError =>
      get_per_thread_mode(modeStack[t]) = CrossReplicaThreadMode(S)

\* C13, amended: the strategy-scope guard for S fails iff the current
\* strategy of the thread is not S; it passes in CrossReplica{S} and in the
\* replica mode of a context of S alike, and reports 'need to be inside
\* scope' when no strategy other than the default one is current and
\* 'mixing' otherwise.  colocate_vars_with raises the guard's error.
C13_ScopeGuard ==
  /\ \A t \in Threads, S \in Strategies :
       LET stack == modeStack[t]
           e == require_distribution_strategy_scope(stack, S) IN
       /\ e = NoError <=> get_distribution_strategy(stack) = S
       /\ get_per_thread_mode(stack) = CrossReplicaThreadMode(S) => e = NoError
       /\ InReplicaContextOf(stack, S) => e = NoError
       /\ e # NoError =>
            /\ ScopeViolation(e)
            /\ e.msg = "need to be inside scope"
                 <=> ~has_distribution_strategy(stack)
  /\ (last.op = "colocate_vars_with" /\ last.outcome = "raise") =>
       /\ get_distribution_strategy(last.before) # last.strategy
       /\ last.err
            = require_distribution_strategy_scope(last.before, last.strategy)
  /\ (last.op = "colocate_vars_with" /\ last.outcome = "enter") =>
       get_distribution_strategy(last.before) = last.strategy

\* colocate_vars_with of the replicating strategy passed its guard inside a
\* replica function.
C13_Witness ==
  /\ last.op = "colocate_vars_with"
  /\ last.outcome = "enter"
  /\ last.strategy = "s1"
  /\ get_per_thread_mode(last.before).cross_replica_context = None

\* The variable creation hooks among these scopes.
CreatorHooks(scopes) ==
  {scopes[i] : i \in {j \in 1..Len(scopes) :
                        scopes[j].kind \in {"var_creator", "colocate_creator"}}}

\* C14: a variable creation hook installed by S.scope() or by
\* S.colocate_vars_with passes its check in CrossReplica{S} and in the replica
\* mode of a context of S, and fails it, with the no-scope or the mixing
\* error, whenever the current strategy is not S; creating a variable raises
\* such an error only from a hook whose strategy is not current.
C14_CreationHooks ==
  /\ \A t \in Threads : \A h \in CreatorHooks(varScopes[t]) :
       LET stack == modeStack[t]
           e == require_distribution_strategy_scope(stack, h.strategy) IN
       /\ (get_per_thread_mode(stack) = CrossReplicaThreadMode(h.strategy)
             \/ InReplicaContextOf(stack, h.strategy)) => e = NoError
       /\ get_distribution_strategy(stack) # h.strategy => ScopeViolation(e)
  /\ (last.op = "create_variable" /\ last.outcome = "raise"
        /\ last.err.type = "RuntimeError") =>
       \E h \in CreatorHooks(last.scopesBefore) :
         /\ get_distribution_strategy(last.before) # h.strategy
         /\ last.err
              = require_distribution_strategy_scope(last.before, h.strategy)
  /\ (last.op = "create_variable" /\ Called
        /\ \A h \in CreatorHooks(last.scopesBefore) :
             get_distribution_strategy(last.before) = h.strategy) =>
       (last.outcome = "ok" \/ last.err.type = "NotImplementedError")

\* A variable was created in a replica function with the hook of
\* colocate_vars_with installed.
C14_Witness ==
  /\ last.op = "create_variable"
  /\ last.outcome = "ok"
  /\ get_per_thread_mode(last.before).replica_context # NoContext
  /\ \E h \in CreatorHooks(last.scopesBefore) : h.kind = "colocate_creator"

\* The properties of a replica context that check the mode.
CheckedProperties == {"replica_id_in_sync_group", "devices"}

\* C15: reading R.replica_id_in_sync_group or R.devices fails whenever the top
\* mode of the calling thread is not InReplica{R} and succeeds when it is;
\* reading R.distribution_strategy succeeds in every mode and gives the
\* strategy that owns R.
C15_ContextProperties ==
  /\ (last.op \in CheckedProperties /\ Called) =>
       /\ last.outcome = "ok"
            <=> get_per_thread_mode(last.before) = InReplicaThreadMode(last.ctx)
       /\ last.outcome = "raise" =>
            /\ last.err.type = "RuntimeError"
            /\ last.err = require_replica_context(last.before, last.ctx)
       /\ (last.outcome = "ok" /\ last.op = "replica_id_in_sync_group") =>
            last.result = last.ctx.replica_id_in_sync_group
  /\ (last.op = "distribution_strategy" /\ Called) =>
       /\ last.outcome = "ok"
       /\ last.result = last.ctx.distribution_strategy
  /\ \A t \in Threads : \A i \in 1..Len(frames[t]) :
       frames[t][i].kind = "merge_fn" /\ i = Len(frames[t]) =>
         /\ replica_id_in_sync_group(modeStack[t], frames[t][i].ctx).err
              # NoError
         /\ devices(modeStack[t], frames[t][i].ctx).err # NoError
         /\ distribution_strategy(modeStack[t], frames[t][i].ctx).result
              = frames[t][i].ctx.distribution_strategy

\* The replica id of a context was refused to the merge function that the
\* context's own merge_call is running.
C15_Witness ==
  /\ last.op = "replica_id_in_sync_group"
  /\ last.outcome = "raise"
  /\ Executing(last.thread, "merge_fn")
  /\ TopFrame(last.thread).ctx = last.ctx
  /\ last.ctx.distribution_strategy = "s1"

\* The operations that take fn and the arguments meant for it.
ArgOps == {"call_for_each_replica", "update", "update_non_slot", "merge_call"}

\* The latest step called one of them and the call passed its mode guard.
ArgsChecked ==
  last.op \in ArgOps /\ Called /\ last.err.type # "RuntimeError"

\* The call uses the legacy form, the structured form.
Legacy(form) == form.pos \/ form.kw

Structured(form) == form.args \/ form.kwargs

\* C16, as claimed: a call that uses both the legacy and the structured form
\* fails with the ambiguous-arguments error; one that uses exactly one form
\* is accepted.
C16_Original ==
  ArgsChecked =>
    /\ (Legacy(last.form) /\ Structured(last.form)) =>
         (last.outcome = "raise" /\ last.err.type = "ValueError")
    /\ (Legacy(last.form) # Structured(last.form)) =>
         last.err.type # "ValueError"

\* C16, amended: a call fails with ValueError, without calling fn, iff it
\* passes positional arguments both trailing and in args=, or keyword
\* arguments both as leftover keywords and in kwargs=; positional arguments
\* in one form together with keyword arguments in the other are accepted.
C16_AmbiguousArguments ==
  ArgsChecked =>
    /\ ((last.form.pos /\ last.form.args) \/ (last.form.kw /\ last.form.kwargs))
         <=> (last.outcome = "raise" /\ last.err.type = "ValueError")
    /\ (last.form.pos /\ last.form.args) =>
         last.err.msg = "can't pass *args and args="
    /\ (~(last.form.pos /\ last.form.args)
          /\ last.form.kw /\ last.form.kwargs) =>
         last.err.msg = "can't pass **kwargs and kwargs="
    /\ last.err.type = "ValueError" =>
         /\ modeStack[last.thread] = last.before
         /\ status[last.thread] = "raising"

\* merge_call was refused keyword arguments passed in both forms.
C16_Witness ==
  /\ last.op = "merge_call"
  /\ last.outcome = "raise"
  /\ last.err.type = "ValueError"
  /\ ~last.form.pos
  /\ last.form.kw /\ last.form.kwargs

\* C17, as claimed: get_per_replica_batch_size(g) of an InputContext with
\* replica count r fails with the not-divisible error unless g mod r = 0, and
\* otherwise returns q with q * r = g.
C17_Original ==
  (last.op = "get_per_replica_batch_size" /\ Called) =>
    LET r == last.value.input_context.num_replicas_in_sync
        g == last.value.global_batch_size IN
    IF r # 0 /\ mod(g, r) = 0
      THEN last.outcome = "ok" /\ last.result * r = g
      ELSE /\ last.outcome = "raise"
           /\ last.err.type = "ValueError"
           /\ last.err.msg = "global_batch_size is not divisible"

\* C18, as claimed: every InputContext that exists has at least one input
\* pipeline, a pipeline id within the pipelines, and at least one replica.
C18_Original ==
  \A c \in inputContexts :
    /\ c.num_input_pipelines >= 1
    /\ 0 <= c.input_pipeline_id
    /\ c.input_pipeline_id < c.num_input_pipelines
    /\ c.num_replicas_in_sync >= 1

\* The invocations of the replica function of context R that are running.
InvocationsOf(R) ==
  {p \in ReplicaFns : frames[p[1]][p[2]].ctx = R}

\* C19: the default strategy has one replica in sync; its
\* call_for_each_replica invokes fn once, with InReplica{R} on top for a new
\* context R with replica id 0, and returns what fn returns.
C19_DefaultCallForEachReplica ==
  /\ num_replicas_in_sync(DefaultStrategy) = 1
  /\ (last.op = "call_for_each_replica" /\ last.strategy = DefaultStrategy
        /\ last.outcome = "enter") =>
       /\ last.ctx.replica_id_in_sync_group = 0
       /\ last.ctx.distribution_strategy = DefaultStrategy
       /\ last.ctx # DefaultReplicaContext
       /\ get_per_thread_mode(modeStack[last.thread])
            = InReplicaThreadMode(last.ctx)
       /\ InvocationsOf(last.ctx) = {<<last.thread, Len(frames[last.thread])>>}
       /\ ~batch.active
  /\ (last.op = "call_for_each_replica" /\ last.strategy = DefaultStrategy
        /\ last.outcome \in {"returned", "failed"}) =>
       /\ InvocationsOf(last.ctx) = {}
       /\ last.outcome = "returned" =>
            /\ last.value \in Values
            /\ last.result = last.value
            /\ status[last.thread] = "running"

\* The default strategy's call_for_each_replica, called inside the strategy's
\* scope, returned the value its fn returned.
C19_Witness ==
  /\ last.op = "call_for_each_replica"
  /\ last.strategy = DefaultStrategy
  /\ last.outcome = "returned"
  /\ last.result = "value:b"
  /\ last.before = <<CrossReplicaThreadMode(DefaultStrategy)>>

\* C20, as claimed: in cross-replica mode of the default strategy, reduce and
\* broadcast return the value they are given, whatever the op and the
\* destinations.
C20_Original ==
  (last.op \in {"reduce", "broadcast"} /\ Called
     /\ last.strategy = DefaultStrategy
     /\ get_per_thread_mode(last.before)
          = CrossReplicaThreadMode(DefaultStrategy)) =>
    /\ last.outcome = "ok"
    /\ last.result = last.value

\* The bodies of update functions among the bodies fs, innermost last.
UpdateFns(fs) ==
  SelectSeq(fs, LAMBDA f : f.kind \in {"update", "update_non_slot"})

\* The target of the innermost update in progress in fs, None if there is
\* none.
UpdateInProgress(fs) ==
  IF UpdateFns(fs) = <<>> THEN None
  ELSE UpdateFns(fs)[Len(UpdateFns(fs))].device

\* C21: update(var, fn, args) of the default strategy calls fn(var, *args)
\* once and update_non_slot(devices, fn, args) calls fn(*args) once; while fn
\* runs get_update_device() returns the target, and once the call is over,
\* fn having returned or raised, it returns what it returned before the call
\* (None when no update was in progress).
C21_DefaultUpdate ==
  /\ \A t \in Threads : get_update_device(t) = UpdateInProgress(frames[t])
  /\ (last.op \in {"update", "update_non_slot"} /\ last.outcome = "enter") =>
       LET t == last.thread
           f == TopFrame(t) IN
       /\ last.strategy = DefaultStrategy
       /\ f.kind = last.op
       /\ f.device = last.value.device
       /\ last.value.fn_args
            = IF last.op = "update"
                THEN <<last.value.device>> \o positional(last.form)
                ELSE positional(last.form)
       /\ get_update_device(t) = last.value.device
       /\ f.old_device = UpdateInProgress(PopFrame(t))
  /\ (last.op = "get_update_device" /\ last.outcome = "ok") =>
       last.result = UpdateInProgress(frames[last.thread])
  /\ (Finished("update") \/ Finished("update_non_slot")) =>
       /\ get_update_device(last.thread)
            = UpdateInProgress(frames[last.thread])
       /\ last.outcome = "failed" => status[last.thread] = "raising"

\* An update of one variable made inside the update of another is over, its
\* fn having raised: the update device is the outer variable again.
C21_Witness ==
  /\ Finished("update")
  /\ last.outcome = "failed"
  /\ last.value = "var:b"
  /\ get_update_device(last.thread) = "var:a"
  /\ Len(UpdateFns(frames[last.thread])) = 1

\* The value is not wrapped.
Plain_value(v) == v.kind = "Tensor"

\* The strategies that implement _unwrap and value_container.
Unwrapping == {DefaultStrategy, "s1"}

\* C22: unwrap of a value that is not wrapped returns the list whose one
\* element is that value; the default strategy returns it for every value.
C22_UnwrapPlain ==
  (last.op = "unwrap" /\ Called /\ last.strategy \in Unwrapping
     /\ (Plain_value(last.value) \/ last.strategy = DefaultStrategy)) =>
    /\ last.outcome = "ok"
    /\ Len(last.result) = 1
    /\ last.result[1] = last.value

\* The default strategy unwrapped a wrapped value in the default mode.
C22_Witness ==
  /\ last.op = "unwrap"
  /\ last.outcome = "ok"
  /\ last.strategy = DefaultStrategy
  /\ last.value.kind = "PerReplica"
  /\ last.result = <<last.value>>
  /\ last.before = <<>>

\* unwrap and value_container, which hand the value to the strategy.
UnguardedOps == {"unwrap", "value_container"}

\* C23, as claimed: unwrap and value_container called on strategy S while the
\* top mode is not CrossReplica{S} raise a mode violation.
C23_Original ==
  (last.op \in UnguardedOps /\ Called
     /\ get_per_thread_mode(last.before)
          # CrossReplicaThreadMode(last.strategy)) =>
    /\ last.outcome = "raise"
    /\ ModeViolation(last.err)

\* C23, amended: unwrap and value_container do not look at the mode; in every
\* mode they return what the strategy's implementation returns, and raise
\* NotImplementedError for a strategy that has none.
C23_UnwrapUnguarded ==
  (last.op \in UnguardedOps /\ Called) =>
    /\ ~ModeViolation(last.err)
    /\ modeStack[last.thread] = last.before
    /\ IF last.strategy \in Unwrapping
         THEN /\ last.outcome = "ok"
              /\ last.op = "unwrap" =>
                   last.result
                     = unwrap(<<CrossReplicaThreadMode(last.strategy)>>,
                              last.strategy, last.value).result
              /\ last.op = "value_container" =>
                   last.result
                     = value_container(
                         <<CrossReplicaThreadMode(last.strategy)>>,
                         last.strategy, last.value).result
         ELSE /\ last.outcome = "raise"
              /\ last.err = NotImplementedError

\* The replicating strategy unwrapped a wrapped value inside a replica
\* function of the default strategy.
C23_Witness ==
  /\ last.op = "unwrap"
  /\ last.outcome = "ok"
  /\ last.strategy = "s1"
  /\ last.value.kind = "PerReplica"
  /\ Len(last.result) = NumReplicas
  /\ Len(last.before) > 0
  /\ get_per_thread_mode(last.before).replica_context # NoContext

\* The elements of a list.
Elements(list) == {list[i] : i \in 1..Len(list)}

C24_BatchReduce ==
  (last.op = "batch_reduce" /\ last.outcome = "ok") =>
    LET pairs == last.value.pairs IN
    /\ Len(last.result) = Len(pairs)
    /\ \A i \in 1..Len(pairs) :
         LET r == reduce(last.before, last.strategy, last.value.aggregation,
                         pairs[i][1], pairs[i][2]) IN
         /\ r.err = NoError
         /\ last.result[i] = r.result

\* A batch of two different pairs was reduced.
C24_Witness ==
  /\ last.op = "batch_reduce"
  /\ last.outcome = "ok"
  /\ last.value.pairs = <<<<"value:b", "device:0">>, <<"value:a", None>>>>
  /\ last.result = <<"value:b", "value:a">>

\* Component k of each replica's result, in the order of the replicas.
ComponentOf(results, k) == [i \in 1..Len(results) |-> results[i][k]]

\* C25: the result of call_for_each_replica is merged component by component
\* over the replicas' results in the order of the replicas: a component that
\* is the same object in every result is that object, one that is each
\* replica's member of a mirrored variable is that variable, any other is a
\* PerReplica mapping from replica to value; with one replica the result is
\* fn's own.
C25_MergedResult ==
  (last.op = "call_for_each_replica" /\ last.outcome = "returned") =>
    IF last.strategy = DefaultStrategy THEN last.result = last.value
    ELSE /\ Len(last.value) = num_replicas_in_sync(last.strategy)
         /\ Len(last.result) = Len(last.value[1])
         /\ \A k \in 1..Len(last.result) :
              LET cs == ComponentOf(last.value, k)
                  same == \A i \in 1..Len(cs) : cs[i] = cs[1]
                  vars_of == {m \in MirroredVariables : MembersOf(m, cs)} IN
              /\ same => last.result[k] = cs[1]
              /\ (~same /\ vars_of # {}) => last.result[k] \in vars_of
              /\ (~same /\ vars_of = {}) =>
                   /\ last.result[k].kind = "PerReplica"
                   /\ Len(last.result[k].parts) = Len(cs)
                   /\ \A i \in 1..Len(cs) :
                        Tensor(last.result[k].parts[i]) = cs[i]

\* Two replicas returned different values and their members of the mirrored
\* variable: the merged result wraps the values and holds the variable.
C25_Witness ==
  /\ last.op = "call_for_each_replica"
  /\ last.outcome = "returned"
  /\ last.strategy = "s1"
  /\ last.result = <<PerReplica(<<"value:b", "value:a">>),
                     Mirrored(<<"v/replica:0", "v/replica:1">>)>>

\* C26, as claimed: scope() of the default strategy raises the nested-scope
\* error whenever the scope of any strategy, the default one included, is
\* active on the calling thread, and never returns a pass-through manager.
C26_Original ==
  (last.op = "scope" /\ Called /\ last.strategy = DefaultStrategy) =>
    /\ (\E A \in Strategies : ScopeActive(A)) =>
         /\ last.outcome = "raise"
         /\ last.err.type = "RuntimeError"
         /\ last.err.msg = "must not nest scopes"
         /\ modeStack[last.thread] = last.before
    /\ last.outcome = "enter" => last.cm.cls = "current"

\* The operations that call a hook the base class leaves to descendants,
\* and those of them that check the mode first.
HookOps ==
  {"reduce", "broadcast", "update", "update_non_slot",
   "call_for_each_replica", "unwrap", "value_container"}

GuardedHookOps == HookOps \ UnguardedOps

\* The latest step called op on the strategy that overrides no hook, with
\* arguments that pass the argument check.
CalledWithoutHook(op) ==
  /\ last.op = op
  /\ Called
  /\ last.strategy = "s2"
  /\ check_args(last.form) = NoError

\* The latest call raised NotImplementedError to its caller and left the
\* mode stack as it was.
Unimplemented ==
  /\ last.outcome = "raise"
  /\ last.err = NotImplementedError
  /\ status[last.thread] = "raising"
  /\ err[last.thread] = "NotImplementedError"
  /\ modeStack[last.thread] = last.before

\* C27, as claimed: an operation of a strategy that does not override the
\* operation's hook raises NotImplementedError in cross-replica mode, the
\* mode stack unchanged, and the mode violation in any other mode.
C27_Original ==
  \A op \in HookOps :
    CalledWithoutHook(op) =>
      IF get_per_thread_mode(last.before) = CrossReplicaThreadMode("s2")
        THEN Unimplemented
        ELSE last.outcome = "raise" /\ ModeViolation(last.err)

\* C27, amended: so it is for the operations that check the mode; unwrap
\* and value_container, which do not, raise NotImplementedError in every
\* mode.
C27_UnimplementedHooks ==
  /\ \A op \in GuardedHookOps :
       CalledWithoutHook(op) =>
         IF get_per_thread_mode(last.before) = CrossReplicaThreadMode("s2")
           THEN Unimplemented
           ELSE /\ last.outcome = "raise"
                /\ ModeViolation(last.err)
                /\ modeStack[last.thread] = last.before
  /\ \A op \in UnguardedOps : CalledWithoutHook(op) => Unimplemented

\* reduce of the strategy that overrides no hook raised NotImplementedError
\* inside the strategy's scope.
C27_Witness ==
  /\ last.op = "reduce"
  /\ last.strategy = "s2"
  /\ last.before = <<CrossReplicaThreadMode("s2")>>
  /\ Unimplemented

\* C28: make_input_fn_iterator called with a replication mode other than
\* PER_WORKER raises the unsupported-mode error without calling the hook or
\* the input function; with PER_WORKER the default strategy calls the input
\* function once, with an InputContext of one pipeline, pipeline id 0 and
\* one replica, and fails if what it returns is not a dataset.
C28_MakeInputFnIterator ==
  /\ (last.op = "make_input_fn_iterator" /\ Called) =>
       IF last.value.replication_mode # "PER_WORKER"
         THEN /\ last.outcome = "raise"
              /\ last.err.type = "ValueError"
              /\ last.err.msg = "input replication mode not supported"
         ELSE last.strategy = DefaultStrategy =>
                LET c == last.value.input_context IN
                /\ last.outcome = "enter"
                /\ TopFrame(last.thread).kind = "input_fn"
                /\ c \in inputContexts
                /\ c.num_input_pipelines = 1
                /\ c.input_pipeline_id = 0
                /\ c.num_replicas_in_sync = 1
  /\ Finished("make_input_fn_iterator") =>
       \/ /\ last.outcome = "failed"
          /\ last.err = Propagating(last.err.type)
       \/ /\ is_dataset(last.value)
          /\ last.outcome = "returned"
          /\ last.result = last.value
       \/ /\ ~is_dataset(last.value)
          /\ last.outcome = "failed"
          /\ last.err.type = "ValueError"
          /\ last.err.msg = "dataset_fn() must return a tf.data.Dataset"
          /\ status[last.thread] = "raising"

\* The input function of the default strategy's make_input_fn_iterator
\* returned a value that is not a dataset, and the call failed.
C28_Witness ==
  /\ Finished("make_input_fn_iterator")
  /\ last.err.type = "ValueError"
  /\ last.value = Tensor("value:a")
  /\ Cardinality(inputContexts) = 1

\* Thread t executes no body that a scope, a call_for_each_replica or a
\* merge_call started.
InNoScope(t) ==
  \A i \in 1..Len(frames[t]) :
    frames[t][i].kind \notin {"scope_body", "replica_fn", "merge_fn"}

\* C30: a thread that has entered no scope is in the replica mode of the
\* default replica context of the default strategy: that is the mode the
\* guards read, merge_call on the default replica context passes its guard
\* and runs merge_fn in cross-replica mode of the default strategy, and
\* once S.scope() has been entered and exited the thread is in it again.
C30_DefaultMode ==
  /\ \A t \in Threads :
       InNoScope(t) =>
         /\ get_per_thread_mode(modeStack[t]) = DefaultReplicaThreadMode
         /\ get_distribution_strategy(modeStack[t]) = DefaultStrategy
         /\ ~has_distribution_strategy(modeStack[t])
  /\ (last.op \in GuardedOps /\ Called /\ last.before = <<>>) =>
       /\ last.outcome = "raise"
       /\ last.err.msg = IF last.strategy = DefaultStrategy
                           THEN "requires cross-replica context, use merge_call"
                           ELSE "need to be inside scope"
  /\ (last.op = "merge_call" /\ Called /\ last.before = <<>>
        /\ last.ctx = DefaultReplicaContext
        /\ check_args(last.form) = NoError) =>
       /\ last.outcome = "enter"
       /\ modeStack[last.thread] = <<CrossReplicaThreadMode(DefaultStrategy)>>
  /\ (Finished("merge_call") /\ last.before = <<>>) =>
       get_per_thread_mode(modeStack[last.thread]) = DefaultReplicaThreadMode
  /\ (last.op = "scope_exit" /\ last.before = <<>>) =>
       get_per_thread_mode(modeStack[last.thread]) = DefaultReplicaThreadMode

\* With no scope entered, merge_call on the default replica context runs
\* merge_fn.
C30_Witness ==
  /\ last.op = "merge_call"
  /\ last.outcome = "enter"
  /\ last.before = <<>>
  /\ last.ctx = DefaultReplicaContext
  /\ Executing(last.thread, "merge_fn")
  /\ get_per_thread_mode(modeStack[last.thread])
       = CrossReplicaThreadMode(DefaultStrategy)

\* The mode stack of thread t holds the replica mode of replica context R.
HoldsReplicaMode(t, R) ==
  \E i \in 1..Len(modeStack[t]) : modeStack[t][i] = InReplicaThreadMode(R)

\* C31 as stated: while merge_fn of replica context R runs, the mode stack
\* holds no InReplica{R} entry and is exactly as deep as it was inside the
\* replica function at the call of merge_call.
C31_Original ==
  \A t \in Threads :
    Executing(t, "merge_fn") =>
      /\ ~HoldsReplicaMode(t, TopFrame(t).ctx)
      /\ Len(modeStack[t]) = Len(TopFrame(t).saved)

\* C31: merge_call pushes CrossReplica{S} on top of the mode stack without
\* popping: while merge_fn of replica context R runs, the stack is the stack
\* of the call with CrossReplica{S} on top of it, one entry deeper, and the
\* mode InReplica{R} a replica function pushed is still the entry beneath;
\* when merge_call is over the stack is the stack of the call again.
C31_MergeCallPushesOnTop ==
  /\ \A t \in Threads :
       Executing(t, "merge_fn") =>
         LET f == TopFrame(t) IN
         /\ modeStack[t]
              = Append(f.saved,
                       CrossReplicaThreadMode(f.ctx.distribution_strategy))
         /\ Len(modeStack[t]) = Len(f.saved) + 1
         /\ f.ctx # DefaultReplicaContext =>
              /\ Len(modeStack[t]) >= 2
              /\ modeStack[t][Len(modeStack[t]) - 1]
                   = InReplicaThreadMode(f.ctx)
  /\ Finished("merge_call") => modeStack[last.thread] = last.before

\* merge_fn runs inside a replica function of a call_for_each_replica: the
\* replica mode is beneath the cross-replica mode.
C31_Witness ==
  \E t \in Threads :
    /\ Executing(t, "merge_fn")
    /\ TopFrame(t).ctx # DefaultReplicaContext
    /\ HoldsReplicaMode(t, TopFrame(t).ctx)
    /\ Len(modeStack[t]) = Len(TopFrame(t).saved) + 1

\* The cross-replica operations of a strategy that a merge function may call.
CrossReplicaOps ==
  {"call_for_each_replica", "reduce", "batch_reduce", "update",
   "update_non_slot", "broadcast"}

\* The latest call was made by the code of a merge function of a replica
\* context of strategy S.
CalledInMergeFnOf(S) ==
  /\ Called
  /\ Len(FramesAtCall) > 0
  /\ FramesAtCall[Len(FramesAtCall)].kind = "merge_fn"
  /\ FramesAtCall[Len(FramesAtCall)].ctx.distribution_strategy = S

\* While merge_fn runs on thread t, the bodies beneath it (the replica
\* function that called merge_call, and its callers) stay as they are; the
\* replica function is on top again only when merge_call is over.
CallerWaits(t) ==
  \A i \in 1..Len(frames[t]) :
    frames[t][i].kind = "merge_fn" =>
      /\ Len(frames'[t]) >= i - 1
      /\ SubSeq(frames'[t], 1, i - 1) = SubSeq(frames[t], 1, i - 1)
      /\ Len(frames'[t]) = i - 1 =>
           /\ i = Len(frames[t])
           /\ last'.thread = t
           /\ last'.op = "merge_call"
           /\ last'.outcome \in {"returned", "failed"}

\* The mode guard let the latest call through.
PassedModeGuard ==
  ~(last.outcome = "raise" /\ last.err.type = "RuntimeError")

\* C32: the replica function that called merge_call takes no step until
\* merge_fn has returned or raised; and a cross-replica operation of strategy
\* S (reduce, batch_reduce, update, update_non_slot, broadcast,
\* call_for_each_replica) or a variable creation, called by the merge function
\* of a replica context of S, passes its mode guard.
C32_SynchronousHandOff ==
  /\ [](/\ (last.op \in CrossReplicaOps /\ CalledInMergeFnOf(last.strategy))
             => PassedModeGuard
        /\ (last.op = "create_variable" /\ CalledInMergeFnOf(last.strategy))
             => PassedModeGuard)
  /\ [][\A t \in Threads : CallerWaits(t)]_vars

\* A merge function of the Default strategy has called call_for_each_replica,
\* which passed the guard: the nested replica function runs.
C32_Witness ==
  /\ last.op = "call_for_each_replica"
  /\ last.outcome = "enter"
  /\ CalledInMergeFnOf(DefaultStrategy)
  /\ Executing(last.thread, "replica_fn")

\* The guarded operations that take the arguments of a user function.
ArgGuardedOps == {"call_for_each_replica", "update", "update_non_slot"}

\* The latest call did not touch the mode stack and started no user code.
NothingRan ==
  /\ modeStack[last.thread] = last.before
  /\ last.after = last.before
  /\ FramesAtCall = frames[last.thread]

\* C33: the guards come first and change nothing. A guarded operation called
\* on S in a mode other than CrossReplica{S}, and merge_call on R in a mode
\* other than InReplica{R}, raise the error of their guard whatever the form
\* of the arguments, ambiguous forms included, with the mode stack unchanged
\* and no user code started; and a call that passes the guard and fails the
\* argument validation leaves the mode stack unchanged too.
C33_GuardsFirst ==
  /\ (last.op \in ArgGuardedOps /\ Called
        /\ get_per_thread_mode(last.before)
             # CrossReplicaThreadMode(last.strategy)) =>
       /\ last.outcome = "raise"
       /\ last.err = require_cross_replica_context(last.before, last.strategy)
       /\ ModeViolation(last.err)
       /\ NothingRan
  /\ (last.op = "merge_call" /\ Called
        /\ get_per_thread_mode(last.before) # InReplicaThreadMode(last.ctx)) =>
       /\ last.outcome = "raise"
       /\ last.err = require_replica_context(last.before, last.ctx)
       /\ last.err.type = "RuntimeError"
       /\ NothingRan
  /\ (last.op \in ArgGuardedOps \cup {"merge_call"}
        /\ last.outcome = "raise") => NothingRan

\* update was called in the wrong mode with both *args and args=: it raised
\* the mode violation.
C33_Witness ==
  /\ last.op = "update"
  /\ last.outcome = "raise"
  /\ last.form.args /\ last.form.pos
  /\ ModeViolation(last.err)
  /\ get_per_thread_mode(last.before) # CrossReplicaThreadMode(last.strategy)

\* Structure b is structure a with each leaf x replaced by the list [x].
RECURSIVE LeavesListed(_, _)
LeavesListed(a, b) ==
  IF a.nest = "leaf"
    THEN b.nest = "list" /\ Len(b.items) = 1 /\ b.items[1] = a
    ELSE /\ b.nest = a.nest
         /\ Len(b.items) = Len(a.items)
         /\ \A i \in 1..Len(a.items) : LeavesListed(a.items[i], b.items[i])

\* The latest step called update or update_non_slot, and fn runs.
UpdateEntered ==
  last.op \in {"update", "update_non_slot"} /\ last.outcome = "enter"

\* C34: update and update_non_slot group the result exactly when neither the
\* flag group nor the flag grouped is passed as False; neither flag is among
\* the keyword arguments of fn; and the default strategy returns fn's result
\* as it is when grouping, and with each leaf x replaced by [x] otherwise.
C34_GroupingFlags ==
  /\ UpdateEntered =>
       /\ TopFrame(last.thread).should_group
            <=> (last.value.group # "False" /\ last.value.grouped # "False")
       /\ last.value.fn_kwargs \cap {"group", "grouped"} = {}
       /\ last.value.fn_kwargs
            = IF last.form.kw \/ last.form.kwargs THEN {"kwarg"} ELSE {}
  /\ (last.op \in {"update", "update_non_slot"}
        /\ last.outcome = "returned") =>
       IF last.result.should_group
         THEN last.result.returned = last.result.fn_result
         ELSE LeavesListed(last.result.fn_result, last.result.returned)

\* An update called with a grouping flag off returned fn's structure with a
\* one-element list in the place of each leaf.
C34_Witness ==
  /\ last.op = "update"
  /\ last.outcome = "returned"
  /\ ~last.result.should_group
  /\ last.result.fn_result
       = Nest("tuple", <<Leaf("a"), Nest("list", <<Leaf("b"), Leaf("c")>>)>>)
  /\ last.result.returned
       = Nest("tuple", <<Nest("list", <<Leaf("a")>>),
                         Nest("list", <<Nest("list", <<Leaf("b")>>),
                                        Nest("list", <<Leaf("c")>>)>>)>>)

\* The lists with the elements of var_list in another order.
Reorderings(var_list) ==
  LET n == Len(var_list) IN
  {[i \in 1..n |-> var_list[f[i]]] :
     f \in {g \in [1..n -> 1..n] : \A i, j \in 1..n : g[i] = g[j] => i = j}}

\* Name a is not after name b in the lexicographic order.
NotAfter(a, b) ==
  \/ a = b
  \/ \E k \in 1..Len(b) :
       /\ k - 1 <= Len(a)
       /\ SubSeq(a, 1, k - 1) = SubSeq(b, 1, k - 1)
       /\ (Len(a) = k - 1 \/ a[k] < b[k])

\* The Default strategy returned the non-slot device of a non-empty list.
NonSlotChosen ==
  /\ last.op = "non_slot_devices"
  /\ last.strategy = DefaultStrategy
  /\ last.outcome = "ok"

\* The variables of the list, distinct objects, that bear the name.
Bearing(var_list, name) ==
  {var_list[i] : i \in {j \in 1..Len(var_list) : var_list[j].name = name}}

\* C35 as stated: every permutation of a non-empty list yields the variable
\* that the list yields.
C35_Original ==
  NonSlotChosen =>
    \A p \in Reorderings(last.value) :
      non_slot_devices(DefaultStrategy, p).result = last.result

\* C35: for the Default strategy, non_slot_devices of a non-empty list
\* returns a variable of the list with the lexicographically smallest name,
\* the first such in the list; every permutation of the list yields the same
\* variable when no other variable of the list bears that name, and a
\* variable of the same name in any case.
C35_NonSlotDevices ==
  /\ (last.op = "non_slot_devices" /\ last.strategy = DefaultStrategy) =>
       (last.outcome = "ok" <=> last.value # <<>>)
  /\ NonSlotChosen =>
       /\ \E i \in 1..Len(last.value) :
            /\ last.value[i] = last.result
            /\ \A j \in 1..(i - 1) : last.value[j].name # last.result.name
       /\ \A i \in 1..Len(last.value) :
            NotAfter(last.result.name, last.value[i].name)
       /\ \A p \in Reorderings(last.value) :
            LET r == non_slot_devices(DefaultStrategy, p).result IN
            /\ r.name = last.result.name
            /\ Bearing(last.value, last.result.name) = {last.result} =>
                 r = last.result

\* The variable with the smallest name is the last of three.
C35_Witness ==
  /\ NonSlotChosen
  /\ Len(last.value) = 3
  /\ last.result = last.value[3]
  /\ last.value[1].name # last.value[2].name
  /\ Bearing(last.value, last.result.name) = {last.result}

\* The entry of a scope failed in a collaborator's __enter__.
ScopeEntryFailed ==
  /\ last.op = "scope"
  /\ last.outcome = "raise"
  /\ last.err = EnterError

\* The variable-creation interceptor of strategy S is installed on thread t.
InterceptorInstalled(t, S) ==
  \E i \in 1..Len(varScopes[t]) :
    varScopes[t][i] = ScopeEntry("var_creator", S)

\* C36: when the variable scope, the variable-creation interceptor or the
\* device scope fails during the entry of the scope of S, the mode stack is
\* the one before the entry, without CrossReplica{S} left on it; and what the
\* entry has installed by then was installed with CrossReplica{S} pushed.
C36_Original ==
  ScopeEntryFailed =>
    /\ modeStack[last.thread] = last.before
    /\ last.scopesAfter # last.scopesBefore =>
         get_per_thread_mode(last.after)
           = CrossReplicaThreadMode(last.strategy)

\* The strategies other than the Default strategy with a mode on the stack
\* of thread t.
StrategiesOnStack(t) ==
  {modeStack[t][i].distribution_strategy : i \in 1..Len(modeStack[t])}
    \ {DefaultStrategy}

\* C37 as stated: the modes on the stack of a thread that are not modes of
\* the Default strategy all belong to one strategy.
C37_Original ==
  \A t \in Threads : Cardinality(StrategiesOnStack(t)) <= 1

\* The latest call is a merge_call on replica context R made by the code of
\* a merge function of R.
NestedMergeCall ==
  /\ last.op = "merge_call"
  /\ Called
  /\ Len(FramesAtCall) > 0
  /\ FramesAtCall[Len(FramesAtCall)].kind = "merge_fn"
  /\ FramesAtCall[Len(FramesAtCall)].ctx = last.ctx

\* C38: merge_call on replica context R, called by the merge function of R,
\* raises the mode error 'need to be inside call_for_each_replica' and leaves
\* the mode stack as it is, starting no merge function; and a merge_call that
\* fails the validation of its arguments leaves InReplica{R} on top of an
\* unchanged stack.
C38_MergeCallInMergeFn ==
  /\ NestedMergeCall =>
       /\ last.outcome = "raise"
       /\ last.err.type = "RuntimeError"
       /\ last.err.msg = "need to be inside call_for_each_replica"
       /\ NothingRan
  /\ (last.op = "merge_call" /\ last.outcome = "raise"
        /\ last.err.type = "ValueError") =>
       /\ get_per_thread_mode(modeStack[last.thread])
            = InReplicaThreadMode(last.ctx)
       /\ NothingRan

\* The merge function of a replica context of a call_for_each_replica has
\* called merge_call on it again, in a valid form.
C38_Witness ==
  /\ NestedMergeCall
  /\ last.outcome = "raise"
  /\ last.ctx # DefaultReplicaContext
  /\ check_args(last.form) = NoError
  /\ Len(modeStack[last.thread]) >= 2

\* The bodies of thread t that set the current update device: the with-blocks
\* of UpdateContext objects and the update functions.
UpdateBodies(t) ==
  {k \in 1..Len(frames[t]) :
     frames[t][k].kind \in {"update_context", "update", "update_non_slot"}}

\* The device of the innermost of these bodies, None outside all of them.
InnermostDevice(t) ==
  IF UpdateBodies(t) = {} THEN None
  ELSE LET k == CHOOSE j \in UpdateBodies(t) :
                  \A i \in UpdateBodies(t) : i <= j
           f == frames[t][k] IN
       IF f.kind = "update_context" THEN UpdateContexts(t)[f.uc].device
       ELSE f.device

\* No UpdateContext object of thread t has been entered while entered.
NeverReentered(t) ==
  \A i \in 1..Len(UpdateContexts(t)) : ~UpdateContexts(t)[i].reentered

\* C39 as stated: whatever the nesting, an object nested inside itself
\* included, get_update_device() inside the contexts is the device of the
\* innermost one, and after the exit of a context it is what it was before
\* the matching enter, hence after the outermost exit what it was before the
\* outermost enter.
C39_Original ==
  /\ get_update_device(MainThread) = InnermostDevice(MainThread)
  /\ Finished("update_context") =>
       get_update_device(last.thread) = last.value

\* C39: in a properly nested sequence of UpdateContext enters and exits in
\* which no UpdateContext object is entered while it is already entered,
\* get_update_device() inside k nested contexts is the device of the
\* innermost one, and after the exit of a context it is what it was before
\* the matching enter, so that after the outermost exit it is what it was
\* before the outermost enter; right after any enter, of an entered object
\* too, it is the device of the object entered.
C39_UpdateContextNesting ==
  /\ NeverReentered(MainThread) =>
       /\ get_update_device(MainThread) = InnermostDevice(MainThread)
       /\ Finished("update_context") =>
            get_update_device(last.thread) = last.value
  /\ (last.op = "update_context" /\ last.outcome = "enter") =>
       get_update_device(last.thread) = last.value

\* The with-block of an UpdateContext object was nested in the with-block of
\* another one, for another device, and has been left.
C39_Witness ==
  /\ Finished("update_context")
  /\ NeverReentered(MainThread)
  /\ Executing(MainThread, "update_context")
  /\ LET outer == TopFrame(MainThread).uc IN
     /\ last.value = UpdateContexts(MainThread)[outer].device
     /\ get_update_device(MainThread) = last.value
     /\ \E i \in 1..Len(UpdateContexts(MainThread)) :
          /\ i # outer
          /\ UpdateContexts(MainThread)[i].old_device = last.value
          /\ UpdateContexts(MainThread)[i].device # last.value

\* The mode that the enter of body f pushed.
ModePushedBy(f) ==
  IF f.kind = "replica_fn" THEN InReplicaThreadMode(f.ctx)
  ELSE IF f.kind = "merge_fn"
    THEN CrossReplicaThreadMode(f.ctx.distribution_strategy)
  ELSE CrossReplicaThreadMode(f.cm.strategy)

\* The bodies of thread t whose enter pushed a mode.
PushingBodies(t) ==
  {k \in 1..Len(frames[t]) :
     \/ frames[t][k].kind \in {"replica_fn", "merge_fn"}
     \/ frames[t][k].kind = "scope_body" /\ frames[t][k].cm.cls = "current"}

\* The position on the mode stack of thread t of the entry of the innermost
\* scope entered, 1 when there is none.
ScopeEntryPosition(t) ==
  LET scopes == {k \in PushingBodies(t) : frames[t][k].kind = "scope_body"} IN
  IF scopes = {} THEN 1
  ELSE Len(frames[t][CHOOSE k \in scopes : \A j \in scopes : j <= k].saved) + 1

IsReplicaMode(mode) == mode.replica_context # NoContext

====
